---- MODULE Spec2Model ----
(***************************************************************************)
(* A model of jacl: three JACK command-line clients that bridge a          *)
(* real-time process callback and a byte stream.                           *)
(*                                                                         *)
(*   jack-stdin-to-midi.c  hex lines on stdin -> lock-free queue -> MIDI   *)
(*   jack-midi-to-stdin.c  MIDI events -> hex lines on a non-blocking fd   *)
(*   cv.c                  one float per line on stdin -> atomic cell      *)
(*                                                                         *)
(* Characters are their ASCII codes, payload bytes are 0..255, node        *)
(* addresses are 1..MaxNodes and 0 is NULL.  Atomic accesses are           *)
(* interleaved one per step (sequential consistency).                      *)
(***************************************************************************)
EXTENDS Integers, Sequences, FiniteSets, TLC

\* ------------------------------------------------------------------
\* Bounds of the model
\* ------------------------------------------------------------------
MaxLines == 3
MaxInput == 5
MaxTicks == 3
MaxCvLines == 2
MaxRun == 2
PipeRoom == 2
MaxOver == 2
Frames == 2

\* The addresses malloc has to hand out: room for the dummy node main
\* allocates and a node for every line of an input three times as long as
\* those of the specifications below.
MaxNodes == 3 * MaxInput + 1

\* ------------------------------------------------------------------
\* Characters
\* ------------------------------------------------------------------
CH_LF == 10
CH_X == 88
CH_0 == 48
CH_9 == 57
CH_a == 97
CH_f == 102
CH_A == 65
CH_F == 70

NULL == 0
NodeIds == 1..MaxNodes

VARIABLES
    \* jack-stdin-to-midi.c: State and the heap of Nodes
    heap,         \* address -> [next, length, message] of the node there
    allocd,       \* addresses malloc'ed and not yet freed
    brk,          \* the highest address malloc has returned
    malloc_head,  \* State.malloc_head
    head,         \* State.head (atomic)
    tail,         \* State.tail (atomic)
    fault,        \* "none", or the memory error that has happened
    \* control thread (main / handle_line / free_excess / push_back)
    cpc,          \* where the control thread is
    line,         \* main's line[0 .. linelen-1]
    hl_line,      \* handle_line's argument
    hl_node,      \* handle_line's node
    fe_node,      \* free_excess's node
    fe_head,      \* free_excess's head
    pb_old,       \* push_back's old
    \* real-time thread (process)
    rpc,          \* where the real-time thread is
    rt_node,      \* process's node
    \* standard input
    stdin,        \* bytes written to standard input and not yet processed
    \* history
    input,        \* the bytes of standard input processed so far
    delivered,    \* the lines handed to handle_line, in order
    enqueued,     \* payloads passed to push_back, in order
    emitted,      \* payloads passed to jack_midi_event_write, in order
    rt_base,      \* enqueues complete when the last tick began (-1: one was under way)
    freedlog,     \* the frees so far: [count, busy, unsafe]
    fe_plan,      \* the nodes from the old frontier up to the cursor free_excess loaded
    skipped,      \* messages pending when process last found no port buffer (-1: never)
    diag          \* diagnostics written to stderr, in order

VARIABLES
    \* jack-midi-to-stdin.c
    line_completed, \* State.line_completed
    out,            \* the bytes standard output has accepted, in order
    fdmode,         \* how standard output accepts bytes: "any", "one", "full"
    wcrashed,       \* the process was killed after a store past the end of buf
    wfed,           \* the events process has been given, in order
    wticks,         \* process callbacks that found the port buffer
    wquiet,         \* how many of the latest of them had no event (up to 2)
    wskipped,       \* the latest process callback found no port buffer
    wtop            \* the highest index of buf process has stored at (-1: none)

VARIABLES
    \* cv.c
    cv_value,     \* State.value (atomic float)
    cv_line,      \* main's line[0 .. linelen-1]
    cv_pc,        \* where main is: "poll", "read", "bytes", "failed", "closed"
    cv_fd1,       \* pollfds[1].fd: 0 (standard input) or -1
    cv_clamp,     \* the build defines JACLI_CV_CLAMP to a non-zero value
    cv_sig,       \* on_exit has run: the write end of the pipe is closed
    cv_pipe,      \* bytes that have arrived on standard input and are unread
    cv_src,       \* bytes that are still to arrive
    cv_src0,      \* the bytes that were to arrive when main began
    cv_eof,       \* the other end of standard input has been closed
    cv_out,       \* the value process wrote to the port buffer last
    cv_log,       \* the first lines handled: [line, before, after, diag]
    cv_wait,      \* how the latest poll returned ("none": no poll has returned)
    cv_eofseen,   \* a read of standard input has returned 0
    cv_rpc,       \* where process is: "idle", "fill"
    cv_loaded,    \* process's value
    cv_buf,       \* the frames of the port buffer process has written this tick
    cv_rbuf       \* the bytes of main's buf the loop has still to look at

cvars == <<cv_value, cv_line, cv_pc, cv_fd1, cv_clamp, cv_sig, cv_pipe, cv_src, cv_src0, cv_eof, cv_out, cv_log, cv_wait, cv_eofseen, cv_rpc, cv_loaded, cv_buf, cv_rbuf>>

wvars == <<line_completed, out, fdmode, wcrashed, wfed, wticks, wquiet, wskipped, wtop>>

qmem == <<heap, allocd, brk, malloc_head, head, tail, fault>>
qctl == <<cpc, line, hl_line, hl_node, fe_node, fe_head, pb_old>>
qrt == <<rpc, rt_node>>
qhist == <<input, delivered, enqueued, emitted, rt_base, freedlog, fe_plan, skipped, diag>>

qenv == <<stdin>>

qvars == <<qmem, qctl, qrt, qenv, qhist>>

vars == <<qvars, wvars, cvars>>

\* ------------------------------------------------------------------
\* jack-stdin-to-midi.c: nodes
\* ------------------------------------------------------------------
\* A byte of malloc'ed memory that has not been written.
UNINIT == -1

FreeCell == [next |-> NULL, length |-> 0, message |-> <<>>]

\* node_new(length, NULL): next is NULL, length is set, message is not written.
node_new(length) ==
    [next |-> NULL, length |-> length, message |-> [i \in 1..length |-> UNINIT]]

\* node_blank()
node_blank == node_new(0)

\* The nodes reachable from n through next links (n included), for the check
\* of reachability before each free.
RECURSIVE ReachFrom(_, _)
ReachFrom(n, seen) ==
    IF n = NULL \/ n \in seen THEN seen
    ELSE ReachFrom(heap[n].next, seen \cup {n})

Reach(n) == ReachFrom(n, {})

\* ------------------------------------------------------------------
\* hex digits
\* ------------------------------------------------------------------
\* A digit table whose upper-case letters are off by ten.
hex_to_int_upper_off(c) ==
    IF c >= CH_0 /\ c <= CH_9 THEN c - CH_0
    ELSE IF c >= CH_a /\ c <= CH_f THEN c - CH_a + 10
    ELSE IF c >= CH_A /\ c <= CH_F THEN c - CH_A
    ELSE -1

\* hex_to_int, lines 159-170
hex_to_int(c) ==
    IF c >= CH_0 /\ c <= CH_9 THEN c - CH_0
    ELSE IF c >= CH_a /\ c <= CH_f THEN c - CH_a + 10
    ELSE IF c >= CH_A /\ c <= CH_F THEN c - CH_A + 10
    ELSE -1

\* A loop that finds no character invalid.
FirstInvalidNone(ln) == Len(ln) + 1

\* handle_line, lines 183-189: the index of the first character of line at
\* which the loop returns, Len(ln) + 1 when it runs to the end.
FirstInvalid(ln) ==
    LET B == { j \in 1..Len(ln) : hex_to_int(ln[j]) = -1 }
    IN  IF B = {} THEN Len(ln) + 1 ELSE CHOOSE j \in B : \A k \in B : j <= k

\* A loop that stops two characters early and leaves the last byte unwritten.
FillLoopShort(ln, message) ==
    [ok |-> FirstInvalid(ln) > Len(ln),
     message |-> [k \in DOMAIN message |->
                    IF 2 * k >= FirstInvalid(ln) \/ 2 * k >= Len(ln) THEN message[k]
                    ELSE ((hex_to_int(ln[2 * k - 1]) * 16) % 256) + hex_to_int(ln[2 * k])],
     bad |-> IF FirstInvalid(ln) > Len(ln) THEN 0 ELSE ln[FirstInvalid(ln)]]

\* handle_line, lines 183-195: the loop over the characters of line, storing
\* into message, in closed form: the characters before the first invalid one
\* are stored, the high digit of a byte by assignment (value << 4) and the
\* low digit by |=. The result is [ok, message, bad]: ok is FALSE when the
\* loop returned at an invalid digit (bad).
FillLoop(ln, message) ==
    LET stop == FirstInvalid(ln)
        high(k) == (hex_to_int(ln[2 * k - 1]) * 16) % 256
    IN  [ok |-> stop > Len(ln),
         message |-> [k \in DOMAIN message |->
                        IF 2 * k - 1 >= stop THEN message[k]
                        ELSE IF 2 * k >= stop THEN high(k)
                        ELSE high(k) + hex_to_int(ln[2 * k])],
         bad |-> IF stop > Len(ln) THEN 0 ELSE ln[stop]]

\* ------------------------------------------------------------------
\* jack-stdin-to-midi.c: control thread, handle_line and what it calls
\* ------------------------------------------------------------------
\* The payload of the node at n, as jack_midi_event_write reads it.
Payload(n) == SubSeq(heap[n].message, 1, heap[n].length)

\* Where handle_line returns to: the line loop of main.
ReturnToMain == "main"

\* A reclaimer that leaves its frontier where it was.
fe_new_frontier_keep(h) == malloc_head

\* free_excess, line 117: the new frontier is the cursor that was loaded.
fe_new_frontier(h) == h

\* free_excess, lines 114-117: load head, take the old frontier, advance it.
FE_Load ==
    /\ cpc = "free_excess"
    /\ fault = "none"
    /\ fe_head' = head
    /\ fe_node' = malloc_head
    /\ malloc_head' = fe_new_frontier(head)
    /\ fe_plan' = Reach(malloc_head) \ Reach(head)
    /\ cpc' = "fe_loop"
    /\ UNCHANGED <<cvars, wvars, heap, allocd, brk, head, tail, fault, line,
                   hl_line, hl_node, pb_old, qrt, input, delivered, enqueued,
                   emitted, rt_base, freedlog, skipped, diag, qenv>>

\* A reclaimer that also frees the node the cursor is on.
fe_continue_through_head(node, h) == node # heap[h].next

\* free_excess's loop condition, line 118
fe_continue(node, h) == node # h

\* free_excess, lines 118-124: one iteration: load node->next, free(node).
FE_Free ==
    /\ cpc = "fe_loop"
    /\ fault = "none"
    /\ fe_continue(fe_node, fe_head)
    /\ IF fe_node \in allocd
       THEN /\ fe_node' = heap[fe_node].next
            /\ allocd' = allocd \ {fe_node}
            /\ heap' = [heap EXCEPT ![fe_node] = FreeCell]
            /\ freedlog' = [count |-> freedlog.count + 1,
                            busy |-> rpc # "idle",
                            unsafe |-> \/ freedlog.unsafe
                                       \/ fe_node \in Reach(head)
                                       \/ (rpc # "idle" /\ fe_node = rt_node)]
            /\ fault' = fault
       ELSE \* NULL or an address already freed
            /\ fault' = "bad_free"
            /\ UNCHANGED <<fe_node, allocd, heap, freedlog>>
    /\ UNCHANGED <<cvars, wvars, brk, malloc_head, head, tail, cpc, line,
                   hl_line, hl_node, fe_head, pb_old, qrt, input, delivered,
                   enqueued, emitted, rt_base, fe_plan, skipped, diag, qenv>>

\* free_excess returns (node = head); handle_line, lines 178-181: odd length.
FE_Done ==
    /\ cpc = "fe_loop"
    /\ fault = "none"
    /\ ~fe_continue(fe_node, fe_head)
    /\ IF Len(hl_line) % 2 = 1
       THEN /\ diag' = Append(diag, "bad message length")
            /\ cpc' = ReturnToMain
            /\ hl_line' = <<>>
       ELSE /\ diag' = diag
            /\ cpc' = "node_new"
            /\ hl_line' = hl_line
    /\ fe_node' = NULL
    /\ fe_head' = NULL
    /\ fe_plan' = {}
    /\ UNCHANGED <<cvars, wvars, qmem, line, hl_node, pb_old, qrt, input,
                   delivered, enqueued, emitted, rt_base, freedlog, skipped,
                   qenv>>

\* The addresses malloc can return: one that was freed, or the lowest it has
\* never returned (those above it are used in order, so that two runs that
\* differ only in the names of fresh addresses are one run).
MallocChoices == ((1..brk) \ allocd) \cup ({brk + 1} \cap NodeIds)

\* handle_line, line 182: node_new(len / 2, NULL); malloc returns a free
\* address.
HL_NodeNew ==
    /\ cpc = "node_new"
    /\ fault = "none"
    /\ \E n \in MallocChoices :
         /\ heap' = [heap EXCEPT ![n] = node_new(Len(hl_line) \div 2)]
         /\ allocd' = allocd \cup {n}
         /\ brk' = IF n > brk THEN n ELSE brk
         /\ hl_node' = n
    /\ cpc' = "fill"
    /\ UNCHANGED <<cvars, wvars, malloc_head, head, tail, fault, line,
                   hl_line, fe_node, fe_head, pb_old, qrt, qhist, qenv>>

\* node_new, lines 90-92: malloc returns NULL and the process aborts.
HL_NodeNewAbort ==
    /\ cpc = "node_new"
    /\ fault = "none"
    /\ cpc' = "aborted"
    /\ UNCHANGED <<cvars, wvars, qmem, line, hl_line, hl_node, fe_node,
                   fe_head, pb_old, qrt, qhist, qenv>>

\* handle_line, lines 183-195: the loop over the line's characters.
HL_Fill ==
    /\ cpc = "fill"
    /\ fault = "none"
    /\ LET r == FillLoop(hl_line, heap[hl_node].message)
       IN  /\ heap' = [heap EXCEPT ![hl_node].message = r.message]
           /\ IF r.ok
              THEN /\ cpc' = "pb_exchange"
                   /\ diag' = diag
                   /\ UNCHANGED <<hl_line, hl_node>>
              ELSE /\ cpc' = ReturnToMain
                   /\ diag' = Append(diag, "invalid hex digit")
                   /\ hl_line' = <<>>
                   /\ hl_node' = NULL
    /\ UNCHANGED <<cvars, wvars, allocd, brk, malloc_head, head, tail, fault,
                   line, fe_node, fe_head, pb_old, qrt, input, delivered,
                   enqueued, emitted, rt_base, freedlog, fe_plan, skipped,
                   qenv>>

\* push_back, lines 107-108: exchange node into tail.
PB_Exchange ==
    /\ cpc = "pb_exchange"
    /\ fault = "none"
    /\ pb_old' = tail
    /\ tail' = hl_node
    /\ cpc' = "pb_link"
    /\ enqueued' = Append(enqueued, Payload(hl_node))
    /\ UNCHANGED <<cvars, wvars, heap, allocd, brk, malloc_head, head, fault,
                   line, hl_line, hl_node, fe_node, fe_head, qrt, input,
                   delivered, emitted, rt_base, freedlog, fe_plan, skipped,
                   diag, qenv>>

\* A push_back that links the new node behind the new tail.
pb_link_target_tail == tail

\* The node push_back links the new node behind, line 110.
pb_link_target == pb_old

\* push_back, line 110: store node into old->next.
PB_Link ==
    /\ cpc = "pb_link"
    /\ fault = "none"
    /\ IF pb_link_target \in allocd
       THEN /\ heap' = [heap EXCEPT ![pb_link_target].next = hl_node]
            /\ fault' = fault
       ELSE /\ heap' = heap
            /\ fault' = "use_after_free"
    /\ cpc' = ReturnToMain
    /\ hl_line' = <<>>
    /\ hl_node' = NULL
    /\ pb_old' = NULL
    /\ UNCHANGED <<cvars, wvars, allocd, brk, malloc_head, head, tail, line,
                   fe_node, fe_head, qrt, qhist, qenv>>

HandleLineStep ==
    \/ FE_Load
    \/ FE_Free
    \/ FE_Done
    \/ HL_NodeNew
    \/ HL_NodeNewAbort
    \/ HL_Fill
    \/ PB_Exchange
    \/ PB_Link

\* ------------------------------------------------------------------
\* jack-stdin-to-midi.c: real-time thread, process
\* ------------------------------------------------------------------
\* A drain that starts at the tail.
drain_from_tail(h, t) == t

\* process, line 145: the node the drain starts from is the cursor.
drain_from(h, t) == h

\* process, lines 139-145: the port buffer is there; load head.
P_Start ==
    /\ rpc = "idle"
    /\ fault = "none"
    /\ rt_node' = drain_from(head, tail)
    /\ rpc' = "loop"
    /\ rt_base' = IF cpc = "pb_link" THEN -1 ELSE Len(enqueued)
    /\ UNCHANGED <<cvars, wvars, qmem, qctl, input, delivered, enqueued,
                   emitted, freedlog, fe_plan, skipped, diag, qenv>>

\* A callback that, finding no port buffer, moves the cursor to the tail.
skip_head_to_tail(h, t) == t

\* process, lines 139-142: the cursor after a callback that found no port
\* buffer: it returns before the load of line 145 and the store of line 155.
skip_head(h, t) == h

\* process, lines 139-142: jack_port_get_buffer returned NULL.
P_NoBuffer ==
    /\ rpc = "idle"
    /\ fault = "none"
    /\ head' = skip_head(head, tail)
    /\ skipped' = Len(enqueued) - Len(emitted)
    /\ UNCHANGED <<cvars, wvars, heap, allocd, brk, malloc_head, tail, fault,
                   qctl, qrt, input, delivered, enqueued, emitted, rt_base,
                   freedlog, fe_plan, diag, qenv>>

\* A drain that writes the node it is leaving.
drain_emit_before_advance(node, next) == node

\* process, lines 152-153: the node whose message is written, after node = next.
drain_emit(node, next) == next

\* process, lines 147-153: one iteration of the drain loop.
P_Loop ==
    /\ rpc = "loop"
    /\ fault = "none"
    /\ IF rt_node \notin allocd
       THEN /\ fault' = "use_after_free"
            /\ UNCHANGED <<rt_node, rpc, emitted>>
       ELSE LET next == heap[rt_node].next
            IN  /\ fault' = fault
                /\ IF next = NULL
                   THEN /\ rpc' = "store"
                        /\ UNCHANGED <<rt_node, emitted>>
                   ELSE /\ rt_node' = next
                        /\ rpc' = "loop"
                        /\ emitted' = Append(emitted, Payload(drain_emit(rt_node, next)))
    /\ UNCHANGED <<cvars, wvars, heap, allocd, brk, malloc_head, head, tail,
                   qctl, input, delivered, enqueued, rt_base, freedlog,
                   fe_plan, skipped, diag, qenv>>

\* A drain that stores the cursor it began with.
drain_publish_stale(node, h) == h

\* process, line 155: the cursor stored is the node the loop stopped on.
drain_publish(node, h) == node

\* process, line 155: publish the cursor.
P_Store ==
    /\ rpc = "store"
    /\ fault = "none"
    /\ head' = drain_publish(rt_node, head)
    /\ rpc' = "idle"
    /\ rt_node' = NULL
    /\ UNCHANGED <<cvars, wvars, heap, allocd, brk, malloc_head, tail, fault,
                   qctl, qhist, qenv>>

Process ==
    \/ P_Start
    \/ P_Loop
    \/ P_Store

\* ------------------------------------------------------------------
\* jack-stdin-to-midi.c: main
\* ------------------------------------------------------------------
\* main, lines 238-245: the blank node and the State.
QState0 ==
    /\ heap = [n \in NodeIds |-> IF n = 1 THEN node_blank ELSE FreeCell]
    /\ allocd = {1}
    /\ brk = 1
    /\ malloc_head = 1
    /\ head = 1
    /\ tail = 1
    /\ fault = "none"
    /\ cpc = "main"
    /\ hl_line = <<>>
    /\ hl_node = NULL
    /\ fe_node = NULL
    /\ fe_head = NULL
    /\ pb_old = NULL
    /\ rpc = "idle"
    /\ rt_node = NULL
    /\ line = <<>>
    /\ input = <<>>
    /\ delivered = <<>>
    /\ rt_base = -1
    /\ enqueued = <<>>
    /\ emitted = <<>>
    /\ freedlog = [count |-> 0, busy |-> FALSE, unsafe |-> FALSE]
    /\ fe_plan = {}
    /\ skipped = -1
    /\ diag = <<>>

\* The lines the queue specification hands to handle_line: "90", "8a40",
\* "9" (odd length) and "9g" (an invalid digit).
QLines == { <<57, 48>>, <<56, 97, 52, 48>>, <<57>>, <<57, 103>> }

\* main, line 331: handle_line(&state, line, linelen) with a complete line.
MainLine ==
    /\ cpc = "main"
    /\ fault = "none"
    /\ Len(delivered) < MaxLines
    /\ \E l \in QLines :
         /\ hl_line' = l
         /\ delivered' = Append(delivered, l)
    /\ cpc' = "free_excess"
    /\ UNCHANGED <<cvars, wvars, qmem, line, hl_node, fe_node, fe_head,
                   pb_old, qrt, input, enqueued, emitted, rt_base, freedlog,
                   fe_plan, skipped, diag, qenv>>

\* sizeof(line), line 290
LineCap == 1024

\* A line loop that appends without looking at linelen.
on_other_unbounded(ln, b) == Append(ln, b)

\* A line loop that skips the 'X' and keeps the partial line.
on_resync_keep(ln) == ln

\* main, lines 324-328: an 'X' discards the partial line (linelen = 0).
on_resync(ln) == <<>>

\* main, lines 335-337: any other byte is appended while there is room.
on_other(ln, b) == IF Len(ln) < LineCap - 1 THEN Append(ln, b) ELSE ln

\* main, lines 323-338: the body of the loop over the bytes read, for the
\* next byte of standard input; at a line-feed handle_line is entered with
\* the line, and linelen is 0 when it returns.
ProcByte ==
    /\ cpc = "main"
    /\ fault = "none"
    /\ stdin # <<>>
    /\ LET b == Head(stdin)
       IN  /\ stdin' = Tail(stdin)
           /\ input' = Append(input, b)
           /\ IF b = CH_X
              THEN /\ line' = on_resync(line)
                   /\ UNCHANGED <<cpc, hl_line, delivered>>
              ELSE IF b = CH_LF
              THEN /\ hl_line' = line
                   /\ delivered' = Append(delivered, line)
                   /\ line' = <<>>
                   /\ cpc' = "free_excess"
              ELSE /\ line' = on_other(line, b)
                   /\ UNCHANGED <<cpc, hl_line, delivered>>
    /\ UNCHANGED <<cvars, wvars, qmem, hl_node, fe_node, fe_head, pb_old, qrt,
                   enqueued, emitted, rt_base, freedlog, fe_plan, skipped,
                   diag>>

\* The bytes of the decoder specification: '9' 'a' 'A' 'g' 'X' and line-feed.
DecBytes == {CH_9, CH_a, CH_A, 103, CH_X, CH_LF}

SeqsUpTo(S, n) == UNION { [1..k -> S] : k \in 0..n }

\* ------------------------------------------------------------------
\* jack-midi-to-stdin.c: the outbound writer
\* ------------------------------------------------------------------
\* sizeof(buf), line 131
BufSize == 128

Min(a, b) == IF a < b THEN a ELSE b

Max(a, b) == IF a > b THEN a ELSE b

\* int_to_hex, lines 84-92
int_to_hex(n) ==
    IF n >= 0 /\ n <= 9 THEN CH_0 + n
    ELSE IF n >= 10 /\ n <= 15 THEN CH_a + (n - 10)
    ELSE 63

\* process, lines 144-146: the two digits of one byte, high nibble first.
hex_pair(value) == <<int_to_hex(value \div 16), int_to_hex(value % 16)>>

\* write(STDOUT_FILENO, buf, len) on a descriptor that has room for cap bytes
\* (cap < 0: the call fails).
write_result(cap, len) == IF cap < 0 THEN -1 ELSE Min(cap, len)

\* A flush that takes every write for the end of a line.
flush_buf_always_complete(buf, written, lc) ==
    IF written < 1 THEN [ok |-> FALSE, lc |-> lc, n |-> 0]
    ELSE [ok |-> written = Len(buf), lc |-> TRUE, n |-> written]

\* A flush for which only a line-feed ends a line.
flush_buf_line_feed_only(buf, written, lc) ==
    IF written < 1 THEN [ok |-> FALSE, lc |-> lc, n |-> 0]
    ELSE IF written > Len(buf) THEN [ok |-> FALSE, lc |-> FALSE, n |-> Len(buf)]
    ELSE [ok |-> written = Len(buf), lc |-> (buf[written] = CH_LF), n |-> written]

\* A flush that records where the line stands only when all was written.
flush_buf_keep_on_short(buf, written, lc) ==
    IF written < 1 THEN [ok |-> FALSE, lc |-> lc, n |-> 0]
    ELSE IF written >= Len(buf)
    THEN [ok |-> written = Len(buf),
          lc |-> (buf[Len(buf)] = CH_LF \/ buf[Len(buf)] = CH_X),
          n |-> Len(buf)]
    ELSE [ok |-> FALSE, lc |-> lc, n |-> written]

\* flush_buf, lines 94-117, with written the result of write: [ok, lc, n] are
\* the value returned, line_completed afterwards and the bytes written.
flush_buf(buf, written, lc) ==
    IF written < 1 THEN [ok |-> FALSE, lc |-> lc, n |-> 0]
    ELSE IF written > Len(buf) THEN [ok |-> FALSE, lc |-> FALSE, n |-> Len(buf)]
    ELSE [ok |-> written = Len(buf),
          lc |-> (buf[written] = CH_LF \/ buf[written] = CH_X),
          n |-> written]

\* One call of flush_buf from process on the tick's state r = [buf, lc, out,
\* caps, oob, top, done, starved]: it uses up the next cap (starved: there is
\* none); top is the highest index of buf stored at so far in the tick.
Flush(r) ==
    IF r.caps = <<>> THEN [r EXCEPT !.done = TRUE, !.starved = TRUE]
    ELSE LET f == flush_buf(r.buf, write_result(Head(r.caps), Len(r.buf)), r.lc)
         IN  [r EXCEPT !.out = r.out \o SubSeq(r.buf, 1, f.n),
                       !.lc = f.lc,
                       !.caps = Tail(r.caps),
                       !.done = ~f.ok]

\* A tick that never announces a cut line.
tick_prefix_none(lc) == <<>>

\* process, line 133-135: the tick starts with 'X' when a line is incomplete.
tick_prefix(lc) == IF ~lc THEN <<CH_X>> ELSE <<>>

\* process, lines 143-150: the iterations of the inner loop that run before
\* buflen reaches sizeof(buf), from a buffer that holds len bytes.
PairsToFill(len) ==
    IF BufSize - len < 2 THEN 1 ELSE (BufSize - len + 1) \div 2

\* process, lines 144-146: the digits stored for the bytes ev[i..i+k-1].
HexRun(ev, i, k) ==
    [j \in 1..(2 * k) |-> hex_pair(ev[i + ((j - 1) \div 2)])[2 - (j % 2)]]

\* process, lines 143-154: the bytes of one event from index i on, one run of
\* the inner loop up to its next flush at a time; a store at index BufSize or
\* beyond is past the end of buf (oob).
RECURSIVE EventBytes(_, _, _)
EventBytes(ev, i, r) ==
    IF i > Len(ev) THEN r
    ELSE LET k == Min(Len(ev) - i + 1, PairsToFill(Len(r.buf)))
             r1 == [r EXCEPT !.buf = r.buf \o HexRun(ev, i, k),
                             !.oob = r.oob \/ (Len(r.buf) + 2 * k > BufSize),
                             !.top = Max(r.top, Len(r.buf) + 2 * k - 1)]
         IN  IF Len(r1.buf) < BufSize
             THEN EventBytes(ev, i + k, r1)
             ELSE LET r2 == Flush(r1)
                  IN  IF r2.done THEN r2
                      ELSE EventBytes(ev, i + k, [r2 EXCEPT !.buf = <<>>])

\* process, lines 138-156: the loop over the tick's events; the line feed is
\* stored without a check of buflen.
RECURSIVE EventLoop(_, _)
EventLoop(evs, r) ==
    IF evs = <<>> THEN r
    ELSE LET r1 == EventBytes(Head(evs), 1, r)
         IN  IF r1.done THEN r1
             ELSE EventLoop(Tail(evs),
                            [r1 EXCEPT !.buf = Append(r1.buf, CH_LF),
                                       !.oob = r1.oob \/ (Len(r1.buf) >= BufSize),
                                       !.top = Max(r1.top, Len(r1.buf))])

\* process, lines 131-158, with the port buffer there: the events of the
\* tick and the room the descriptor has at each write call.
process_tick(lc, evs, caps) ==
    LET r0 == [buf |-> tick_prefix(lc), lc |-> lc, out |-> <<>>, caps |-> caps,
               oob |-> FALSE, top |-> Len(tick_prefix(lc)) - 1, done |-> FALSE,
               starved |-> FALSE]
        r1 == EventLoop(evs, r0)
    IN  IF r1.done THEN r1 ELSE Flush(r1)

\* A descriptor with room for everything.
FullCap == 1000

\* Room the descriptor may have at a write call.
Caps == {-1, 0, 1, 2, 3, 5, FullCap}

CapsOf(mode) ==
    IF mode = "one" THEN {1}
    ELSE IF mode = "full" THEN {FullCap}
    ELSE Caps

\* The room at the write calls of one tick: one call, or two when the first
\* took everything.
CapScripts(mode) ==
    { <<c>> : c \in CapsOf(mode) }
        \cup { <<c1, c2>> : c1 \in CapsOf(mode) \cap {FullCap},
                            c2 \in CapsOf(mode) }

\* Events: empty, 90, 90 3c, and one that fills buf (BufSize / 2 bytes).
EvEmpty == <<>>
EvNoteByte == <<144>>
EvNote == <<144, 60>>
EvBig == [i \in 1..(BufSize \div 2) |-> 144]

\* The events of one tick.
TickInputs == { <<>>, <<EvEmpty>>, <<EvNoteByte, EvNote>>, <<EvBig>> }

\* main, lines 201-205
WState0 ==
    /\ line_completed = TRUE
    /\ out = <<>>
    /\ wcrashed = FALSE
    /\ wfed = <<>>
    /\ wticks = 0
    /\ wquiet = 0
    /\ wskipped = FALSE
    /\ wtop = -1

\* The writer is not part of the specification.
WIdle ==
    /\ WState0
    /\ fdmode = "any"

\* process, lines 119-159, one callback; a store past the end of buf either
\* lands in the padding behind it or kills the process when it returns.
W_Tick ==
    /\ ~wcrashed
    /\ wticks < MaxTicks
    /\ \E evs \in TickInputs, caps \in CapScripts(fdmode) :
         LET r == process_tick(line_completed, evs, caps)
         IN  /\ r.caps = <<>>
             /\ ~r.starved
             /\ line_completed' = r.lc
             /\ out' = out \o r.out
             /\ wcrashed' \in (IF r.oob THEN BOOLEAN ELSE {FALSE})
             /\ wfed' = wfed \o evs
             /\ wquiet' = IF evs = <<>> THEN Min(wquiet + 1, 2) ELSE 0
             /\ wtop' = Max(wtop, r.top)
    /\ wticks' = wticks + 1
    /\ wskipped' = FALSE
    /\ UNCHANGED <<cvars, fdmode, qmem, qctl, qrt, qhist, qenv>>

\* process, lines 126-129: jack_port_get_buffer returned NULL.
W_NoBuffer ==
    /\ ~wcrashed
    /\ wskipped' = TRUE
    /\ UNCHANGED <<cvars, line_completed, out, fdmode, wcrashed, wfed, wticks,
                   wquiet, wtop, qmem, qctl, qrt, qhist, qenv>>

\* ------------------------------------------------------------------
\* cv.c: strtof
\* ------------------------------------------------------------------
\* A float is [kind, neg, m, e]: kind "num" is the binary32 number m * 2^e
\* with the sign bit neg, where m is in 2^23 .. 2^24 - 1 for a normal number
\* and e is -149 with m below 2^23 for a subnormal number and for zero; kind
\* "inf" is an infinity with that sign; kind "nan" is a NaN.
FNum(neg, m, e) == [kind |-> "num", neg |-> neg, m |-> m, e |-> e]
FInf(neg) == [kind |-> "inf", neg |-> neg, m |-> 0, e |-> 0]
FNaN == [kind |-> "nan", neg |-> FALSE, m |-> 0, e |-> 0]

\* 2^23, the lowest mantissa of a normal number.
FltHidden == 8388608

\* The exponent of the lowest bit of a subnormal number.
FltMinExp == 0 - 149

FZero == FNum(FALSE, 0, FltMinExp)
FOne == FNum(FALSE, FltHidden, 0 - 23)

\* value < 0 and value > 1 on floats.
FLessZero(v) == v.neg /\ (v.kind = "inf" \/ (v.kind = "num" /\ v.m > 0))
FGreaterOne(v) ==
    /\ ~v.neg
    /\ \/ v.kind = "inf"
       \/ v.kind = "num" /\ (v.e > FOne.e \/ (v.e = FOne.e /\ v.m > FOne.m))

\* White space, the decimal digits, the hexadecimal digits, and the
\* characters of an n-char-sequence (digits, letters and '_').
SpaceChars == 9..13 \cup {32}
DigitChars == 48..57
HexChars == DigitChars \cup 65..70 \cup 97..102
NChars == DigitChars \cup 65..90 \cup 97..122 \cup {95}

ToLower(c) == IF c \in 65..90 THEN c + 32 ELSE c

\* The characters of a char array up to its terminating NUL.
CString(ln) ==
    LET Z == { j \in 1..Len(ln) : ln[j] = 0 }
    IN  IF Z = {} THEN ln ELSE SubSeq(ln, 1, (CHOOSE j \in Z : \A k \in Z : j <= k) - 1)

\* word, in lower case, stands at index i of ln in either case.
MatchesAt(ln, i, word) ==
    /\ i + Len(word) - 1 <= Len(ln)
    /\ \A k \in 1..Len(word) : ToLower(ln[i + k - 1]) = word[k]

\* The index of the first element of ln at or after i that is not in S
\* (Len(ln) + 1: there is none).
SpanEnd(ln, i, S) ==
    CHOOSE j \in i..(Len(ln) + 1) :
      /\ j = Len(ln) + 1 \/ ln[j] \notin S
      /\ \A k \in i..(j - 1) : ln[k] \in S

\* A function on 1..n as a sequence.
AsSeq(f) == SubSeq(f, 1, Len(f))

\* The values of the decimal or hexadecimal digits ln[a .. b].
DigitVals(ln, a, b) ==
    IF b < a THEN <<>>
    ELSE AsSeq([k \in 1..(b - a + 1) |->
                  IF ln[a + k - 1] \in DigitChars THEN ln[a + k - 1] - 48
                  ELSE ToLower(ln[a + k - 1]) - 87])

\* The number a few decimal digits spell.
RECURSIVE SmallValue(_)
SmallValue(ds) ==
    IF ds = <<>> THEN 0
    ELSE 10 * SmallValue(SubSeq(ds, 1, Len(ds) - 1)) + ds[Len(ds)]

\* An exponent is kept to this magnitude: with the digits a line can hold,
\* any exponent beyond it overflows or underflows as this one does.
ExpCap == 99999

\* The exponent part at index i, introduced by mark ('e' or 'p'): a sign and
\* at least one decimal digit; end is the index after it (i: there is none).
ExpPart(ln, i, mark) ==
    LET s == IF i + 1 <= Len(ln) /\ ln[i + 1] \in {43, 45} THEN i + 2 ELSE i + 1
        de == SpanEnd(ln, s, DigitChars)
        z == SpanEnd(ln, s, {48})
        mag == IF de - z > 5 THEN ExpCap ELSE SmallValue(DigitVals(ln, z, de - 1))
    IN  IF i <= Len(ln) /\ ToLower(ln[i]) = mark /\ de > s
        THEN [end |-> de, val |-> IF ln[i + 1] = 45 THEN 0 - mag ELSE mag]
        ELSE [end |-> i, val |-> 0]

\* Twice the number the decimal digits a spell, with one digit more.
Double(a) ==
    AsSeq([i \in 1..(Len(a) + 1) |->
             (2 * (IF i = 1 THEN 0 ELSE a[i - 1])
                + (IF i <= Len(a) /\ a[i] >= 5 THEN 1 ELSE 0)) % 10])

\* Five times the number the decimal digits a spell, with one digit more:
\* half of it, one decimal place further down.
Times5(a) ==
    AsSeq([i \in 1..(Len(a) + 1) |->
             ((IF i <= Len(a) THEN a[i] ELSE 0)
                + 10 * (IF i = 1 THEN 0 ELSE a[i - 1] % 2)) \div 2])

\* a doubled k times, and a multiplied by five k times.
RECURSIVE Doubled(_, _)
Doubled(a, k) ==
    IF a = <<>> \/ k = 0 THEN a
    ELSE IF k >= 4 THEN Doubled(Double(Double(Double(Double(a)))), k - 4)
    ELSE Doubled(Double(a), k - 1)

RECURSIVE Halved(_, _)
Halved(a, k) ==
    IF a = <<>> \/ k = 0 THEN a
    ELSE IF k >= 4 THEN Halved(Times5(Times5(Times5(Times5(a)))), k - 4)
    ELSE Halved(Times5(a), k - 1)

\* The integer part of the decimal a with f places, when it is below 2^24.
IntPart(a, f) ==
    SmallValue(SubSeq(a, SpanEnd(SubSeq(a, 1, Len(a) - f), 1, {0}), Len(a) - f))

\* A whole number that is at least log2(10^E).
CeilLog2Pow10(E) ==
    IF E >= 0 THEN (E * 3322 + 999) \div 1000 ELSE 0 - (((0 - E) * 3321) \div 1000)

\* The decimal a with f places times 2^s, doubled until its integer part has
\* 24 bits: [d, f, s].
RECURSIVE Normalised(_, _, _)
Normalised(a, f, s) ==
    IF IntPart(a, f) >= FltHidden THEN [d |-> a, f |-> f, s |-> s]
    ELSE Normalised(Double(a), f, s + 1)

\* strtof's rounding of 1.xxx * 2^exponent, whose first 24 bits are M24,
\* whose next bit is r and which has further bits set when st, read in base
\* 10 or 16. Round to nearest, ties to even; a number below 2^-126 is
\* rounded at 2^-149, and errno becomes ERANGE when it is tiny and inexact;
\* the bit r is then looked at only by way of the decimal digits beyond the
\* 151st place.
round_and_return(neg, M24, exponent, r, st, base) ==
    IF exponent < 0 - 126
    THEN IF exponent < 0 - 150
         THEN [val |-> FNum(neg, 0, FltMinExp), erange |-> TRUE]
         ELSE LET shift == 0 - 126 - exponent
                  half == (M24 \div 2^(shift - 1)) % 2 = 1
                  low == M24 % 2^(shift - 1) # 0
                  mant == M24 \div 2^shift
                  more == st \/ (r /\ shift >= 2 /\ base = 10)
                  is_tiny == ~(shift = 1 /\ M24 = 2 * FltHidden - 1 /\ r)
                  up == half /\ (more \/ low \/ mant % 2 = 1)
              IN  [val |-> FNum(neg, mant + (IF up THEN 1 ELSE 0), FltMinExp),
                   erange |-> is_tiny /\ (half \/ more \/ low)]
    ELSE LET up == r /\ (st \/ M24 % 2 = 1)
             m0 == M24 + (IF up THEN 1 ELSE 0)
             m == IF m0 = 2 * FltHidden THEN FltHidden ELSE m0
             e == IF m0 = 2 * FltHidden THEN exponent + 1 ELSE exponent
         IN  IF e > 127
             THEN [val |-> FInf(neg), erange |-> TRUE]
             ELSE [val |-> FNum(neg, m, e - 23), erange |-> FALSE]

\* The decimal digits sig, the first of them not 0, times 10^q, a number
\* from 10^-46 up to 10^39, times the power of two that leaves 24 bits
\* before the point: [d, f, s].
DecimalScaled(sig, q) ==
    LET F == IF q < 0 THEN 0 - q ELSE 0
        A == IF q >= 0 THEN sig \o [i \in 1..q |-> 0]
             ELSE IF F > Len(sig) THEN [i \in 1..(F - Len(sig)) |-> 0] \o sig
             ELSE sig
        s0 == 24 - CeilLog2Pow10(Len(sig) + q)
    IN  IF s0 >= 0 THEN Normalised(Doubled(A, s0), F, s0)
        ELSE Normalised(Halved(A, 0 - s0), F - s0, s0)

\* The float for the scaled decimal n: its integer part is the mantissa and
\* its decimal places tell the rounding.
DecimalRounded(neg, n) ==
    LET fr == SubSeq(n.d, Len(n.d) - n.f + 1, Len(n.d))
    IN  round_and_return(neg, IntPart(n.d, n.f), 23 - n.s,
                         fr # <<>> /\ fr[1] >= 5,
                         \E k \in 1..Len(fr) : fr[k] # 0 /\ (k > 1 \/ fr[1] # 5),
                         10)

\* The float for the decimal digits ds times 10^q.
DecimalToFloat(neg, ds, q) ==
    LET f == SpanEnd(ds, 1, {0})
        E == Len(ds) - f + 1 + q
    IN  IF f > Len(ds) THEN [val |-> FNum(neg, 0, FltMinExp), erange |-> FALSE]
        ELSE IF E > 39 THEN [val |-> FInf(neg), erange |-> TRUE]
        ELSE IF E < 0 - 45 THEN [val |-> FNum(neg, 0, FltMinExp), erange |-> TRUE]
        ELSE DecimalRounded(neg, DecimalScaled(SubSeq(ds, f, Len(ds)), q))

\* Bit j of the hexadecimal digits hs, four to a digit (0 beyond them).
HexBit(hs, j) ==
    IF j \in 1..(4 * Len(hs))
    THEN (hs[(j + 3) \div 4] \div 2^(3 - ((j - 1) % 4))) % 2
    ELSE 0

\* The number the n bits from bit j on spell.
RECURSIVE HexBits(_, _, _)
HexBits(hs, j, n) ==
    IF n = 0 THEN 0 ELSE HexBit(hs, j) * 2^(n - 1) + HexBits(hs, j + 1, n - 1)

\* The float for the hexadecimal digits hs, H of them before the point,
\* times 2^pexp.
HexToFloat(neg, hs, H, pexp) ==
    LET Set == { j \in 1..(4 * Len(hs)) : HexBit(hs, j) = 1 }
    IN  IF Set = {} THEN [val |-> FNum(neg, 0, FltMinExp), erange |-> FALSE]
        ELSE LET f == CHOOSE j \in Set : \A k \in Set : j <= k
             IN  round_and_return(neg, HexBits(hs, f, 24), 4 * H - f + pexp,
                                  HexBit(hs, f + 24) = 1,
                                  \E j \in Set : j > f + 24, 16)

\* Digits in base 10 or 16 with at most one point from index b on, then an
\* exponent part; without a digit nothing is converted (endptr == line).
StrtofNumber(ln, b, neg, base) ==
    LET digits == IF base = 16 THEN HexChars ELSE DigitChars
        ie == SpanEnd(ln, b, digits)
        hasPoint == ie <= Len(ln) /\ ln[ie] = 46
        fe == IF hasPoint THEN SpanEnd(ln, ie + 1, digits) ELSE ie
        places == IF hasPoint THEN fe - ie - 1 ELSE 0
        x == ExpPart(ln, fe, IF base = 16 THEN 112 ELSE 101)
        r == IF base = 16
             THEN HexToFloat(neg, DigitVals(ln, b, ie - 1) \o DigitVals(ln, ie + 1, fe - 1),
                             ie - b, x.val)
             ELSE DecimalToFloat(neg,
                                 DigitVals(ln, b, ie - 1) \o DigitVals(ln, ie + 1, fe - 1),
                                 x.val - places)
    IN  IF (ie - b) + places = 0 THEN [end |-> 1, val |-> FZero, erange |-> FALSE]
        ELSE [end |-> x.end] @@ r

\* "nan" at index b, with "(n-char-sequence)" after it when that is
\* complete.
StrtofNan(ln, b) ==
    LET c == SpanEnd(ln, b + 4, NChars)
    IN  IF b + 3 <= Len(ln) /\ ln[b + 3] = 40 /\ c <= Len(ln) /\ ln[c] = 41
        THEN [end |-> c + 1, val |-> FNaN, erange |-> FALSE]
        ELSE [end |-> b + 3, val |-> FNaN, erange |-> FALSE]

\* What follows the white space and the sign: nan, infinity, inf, a
\* hexadecimal number after 0x when a hexadecimal digit follows, or a
\* decimal number.
StrtofBody(ln, b, neg) ==
    IF MatchesAt(ln, b, <<110, 97, 110>>)
    THEN StrtofNan(ln, b)
    ELSE IF MatchesAt(ln, b, <<105, 110, 102, 105, 110, 105, 116, 121>>)
    THEN [end |-> b + 8, val |-> FInf(neg), erange |-> FALSE]
    ELSE IF MatchesAt(ln, b, <<105, 110, 102>>)
    THEN [end |-> b + 3, val |-> FInf(neg), erange |-> FALSE]
    ELSE LET hex == /\ MatchesAt(ln, b, <<48, 120>>)
                    /\ \/ b + 2 <= Len(ln) /\ ln[b + 2] \in HexChars
                       \/ /\ b + 3 <= Len(ln)
                          /\ ln[b + 2] = 46
                          /\ ln[b + 3] \in HexChars
         IN  StrtofNumber(ln, IF hex THEN b + 2 ELSE b, neg, IF hex THEN 16 ELSE 10)

\* strtof(line, &endptr), line 133, as the C library of the build (glibc, C
\* locale, round to nearest) does it: white space, a sign, then nan,
\* infinity, inf or a number; the longest such prefix is converted, end is
\* the index endptr points at (1: endptr == line, nothing was converted) and
\* erange tells that errno was set to ERANGE: the number is too large for a
\* float, or too small for a normal one and not exactly a subnormal one.
strtof(line0) ==
    LET ln == CString(line0)
        s == SpanEnd(ln, 1, SpaceChars)
        signed == s <= Len(ln) /\ ln[s] \in {43, 45}
    IN  StrtofBody(ln, IF signed THEN s + 1 ELSE s, signed /\ ln[s] = 45)

\* ------------------------------------------------------------------
\* cv.c: handle_line, process and main
\* ------------------------------------------------------------------
\* sizeof(line), line 263
CvLineCap == 128

\* sizeof(buf), line 285
ReadSize == 64

\* A clamp that lets negative values through.
clamp_value_high_only(value) ==
    IF FGreaterOne(value)
    THEN [value |-> FOne, diag |-> <<"value clamped to 1">>]
    ELSE [value |-> value, diag |-> <<>>]

\* handle_line, lines 150-156: the branches taken when clamp is true.
clamp_value(value) ==
    IF FLessZero(value)
    THEN [value |-> FZero, diag |-> <<"value clamped to 0">>]
    ELSE IF FGreaterOne(value)
    THEN [value |-> FOne, diag |-> <<"value clamped to 1">>]
    ELSE [value |-> value, diag |-> <<>>]

\* The lines of the scalar specification: "", z, nan, 0.5, 1.5, -0.2, 0.5z,
\* -0, inf and 1e39 (too large for a float).
CvLines ==
    { <<>>, <<122>>, <<110, 97, 110>>, <<48, 46, 53>>, <<49, 46, 53>>,
      <<45, 48, 46, 50>>, <<48, 46, 53, 122>>, <<45, 48>>, <<105, 110, 102>>,
      <<49, 101, 51, 57>> }

\* strtof of the lines the specifications below feed (those of CvLines and
\* the runs of '5' of an endless input), converted once: TLC evaluates
\* ENABLED without keeping the value of a definition it has computed, and
\* the conversion is far too long to repeat at every mention.
Converted ==
    { <<ln, strtof(ln)>> : ln \in CvLines \cup { [i \in 1..n |-> 53] : n \in 0..MaxRun } }

\* handle_line, lines 134-158, once strtof has returned r.
cv_handle_parsed(old, r, clamp) ==
    IF r.end = 1 \/ r.erange
    THEN [value |-> old, diag |-> <<"error: could not parse as a float">>]
    ELSE IF r.val.kind = "nan"
    THEN [value |-> old, diag |-> <<"error: value cannot be NaN">>]
    ELSE IF ~clamp THEN [value |-> r.val, diag |-> <<>>]
    ELSE clamp_value(r.val)

\* handle_line, lines 130-159, on the cell holding old: [value, diag] are
\* the cell afterwards and what was written to stderr.
cv_handle_line(old, ln, clamp) ==
    cv_handle_parsed(old,
                     IF \E p \in Converted : p[1] = ln
                     THEN (CHOOSE p \in Converted : p[1] = ln)[2]
                     ELSE strtof(ln),
                     clamp)

\* The first line-feed of buf at or after i (Len(buf) + 1: none).
CvNextLF(buf, i) ==
    IF \A j \in i..Len(buf) : buf[j] # CH_LF THEN Len(buf) + 1
    ELSE CHOOSE j \in i..Len(buf) :
           buf[j] = CH_LF /\ \A k \in i..(j - 1) : buf[k] # CH_LF

\* main, lines 303-305, over buf[i .. p-1], bytes that are no line-feed:
\* each is appended while there is room, so the first of them that fit.
cv_append_run(ln, buf, i, p) ==
    ln \o SubSeq(buf, i, Min(p - 1, i - 1 + (CvLineCap - 1 - Len(ln))))

\* The log with the line handled added, while it has room.
CvLogged(log, ln, before, h) ==
    IF Len(log) < MaxCvLines
    THEN Append(log, [line |-> ln, before |-> before, after |-> h.value,
                      diag |-> h.diag])
    ELSE log

\* main, lines 296-306: the loop over the bytes buf of a read, with ln in
\* line, up to the first line-feed, and on to the end of buf when no other
\* follows it. lf tells that a line-feed was met and handed is the line
\* handle_line is called with (line 299); line is what the loop leaves in
\* line, and rest the bytes of buf it has still to look at.
CvRun(buf, ln) ==
    LET p == CvNextLF(buf, 1)
        l == cv_append_run(ln, buf, 1, p)
        rest == SubSeq(buf, p + 1, Len(buf))
        last == CvNextLF(rest, 1) > Len(rest)
    IN  IF p > Len(buf)
        THEN [lf |-> FALSE, handed |-> <<>>, line |-> l, rest |-> <<>>]
        ELSE [lf |-> TRUE, handed |-> l,
              line |-> IF last THEN cv_append_run(<<>>, rest, 1, Len(rest) + 1)
                       ELSE <<>>,
              rest |-> IF last THEN <<>> ELSE rest]

\* main, lines 204-206 and 263-264: the State, zero but for client, and an
\* empty line; nothing has arrived.
CvState0 ==
    /\ cv_value = FZero
    /\ cv_line = <<>>
    /\ cv_pc = "poll"
    /\ cv_fd1 = 0
    /\ cv_sig = FALSE
    /\ cv_pipe = <<>>
    /\ cv_eof = FALSE
    /\ cv_out = FZero
    /\ cv_log = <<>>
    /\ cv_wait = "none"
    /\ cv_eofseen = FALSE
    /\ cv_rpc = "idle"
    /\ cv_loaded = FZero
    /\ cv_buf = <<>>
    /\ cv_rbuf = <<>>

\* cv.c is not part of the specification.
CvIdle ==
    /\ CvState0
    /\ cv_clamp = FALSE
    /\ cv_src = <<>>
    /\ cv_src0 = <<>>

\* What poll reports for the shutdown pipe (events = 0): POLLHUP once the
\* write end is closed.
PollShutdown == cv_sig

\* What poll can report for standard input: nothing for fd -1; POLLIN while
\* bytes are unread; at end of input POLLIN (read will return 0) or, on a
\* pipe, POLLHUP alone.
PollStdin ==
    IF cv_fd1 = -1 THEN {}
    ELSE IF cv_pipe # <<>> THEN {"POLLIN"}
    ELSE IF cv_eof THEN {"POLLIN", "POLLHUP"}
    ELSE {}

\* A loop that does not look at the shutdown pipe.
wake_exit_never(revents0) == FALSE

\* main, lines 281-283: any event on the shutdown pipe ends the loop.
wake_exit(revents0) == revents0

\* main, lines 266-284 and 308-310: poll returns when a descriptor is
\* ready; the shutdown pipe is served first and ends the loop, and
\* jack_client_close follows (line 313).
CvPoll ==
    /\ cv_pc = "poll"
    /\ PollShutdown \/ PollStdin # {}
    /\ cv_wait' = "ready"
    /\ IF wake_exit(PollShutdown)
       THEN /\ cv_pc' = "closed"
            /\ UNCHANGED cv_fd1
       ELSE \E revents \in PollStdin :
              IF revents = "POLLIN"
              THEN /\ cv_pc' = "read"
                   /\ UNCHANGED cv_fd1
              ELSE /\ cv_fd1' = -1
                   /\ UNCHANGED cv_pc
    /\ UNCHANGED <<cv_value, cv_line, cv_clamp, cv_sig, cv_pipe, cv_src,
                   cv_src0, cv_eof, cv_out, cv_log, cv_eofseen, cv_rpc,
                   cv_loaded, cv_buf, cv_rbuf, wvars, qmem, qctl, qrt, qhist,
                   qenv>>

\* The other ways poll's result is handled: it returned 0, it failed with
\* EINTR (a signal was handled, or the process was stopped and continued),
\* it failed otherwise (ENOMEM), or it reported POLLNVAL for a descriptor.
WaitOutcomes == {"zero", "eintr", "fail", "nval"}

\* A loop for which an interrupted poll is fatal.
after_wait_eintr_fatal(res) == IF res = "zero" THEN "poll" ELSE "failed"

\* main, lines 268-280: where main goes on: back to poll (continue), or to
\* close_and_fail, which closes the client and returns EXIT_FAILURE.
after_wait(res) == IF res \in {"zero", "eintr"} THEN "poll" ELSE "failed"

\* main, lines 266-280: poll returns without a descriptor to serve.
CvPollOther ==
    /\ cv_pc = "poll"
    /\ \E res \in WaitOutcomes :
         /\ cv_wait' = res
         /\ cv_pc' = after_wait(res)
    /\ UNCHANGED <<cv_value, cv_line, cv_fd1, cv_clamp, cv_sig, cv_pipe,
                   cv_src, cv_src0, cv_eof, cv_out, cv_log, cv_eofseen,
                   cv_rpc, cv_loaded, cv_buf, cv_rbuf, wvars, qmem, qctl, qrt,
                   qhist, qenv>>

\* A loop that keeps polling standard input after its end.
fd_after_eof_keep(fd) == fd

\* main, lines 291-295: read returned 0; standard input is closed and
\* pollfds[1].fd becomes -1.
fd_after_eof(fd) == -1

\* main, lines 285-307: one read of the inner loop and its bytes up to the
\* first store into the cell (handle_line, line 158); the inner loop is
\* left only when read fails (nothing to read on the non-blocking
\* descriptor) or returns 0.
CvRead ==
    /\ cv_pc = "read"
    /\ IF cv_pipe = <<>>
       THEN /\ cv_pc' = "poll"
            /\ cv_fd1' = IF cv_eof THEN fd_after_eof(cv_fd1) ELSE cv_fd1
            /\ cv_eofseen' = (cv_eofseen \/ cv_eof)
            /\ UNCHANGED <<cv_pipe, cv_line, cv_value, cv_log, cv_rbuf>>
       ELSE \E n \in {Min(ReadSize, Len(cv_pipe))} :
            \E run \in {CvRun(SubSeq(cv_pipe, 1, n), cv_line)} :
            \E h \in {IF run.lf THEN cv_handle_line(cv_value, run.handed, cv_clamp)
                       ELSE [value |-> cv_value, diag |-> <<>>]} :
                /\ cv_pipe' = SubSeq(cv_pipe, n + 1, Len(cv_pipe))
                /\ cv_line' = run.line
                /\ cv_value' = h.value
                /\ cv_log' = IF run.lf THEN CvLogged(cv_log, run.handed, cv_value, h)
                             ELSE cv_log
                /\ cv_rbuf' = run.rest
                /\ cv_pc' = IF run.rest = <<>> THEN "read" ELSE "bytes"
                /\ UNCHANGED <<cv_fd1, cv_eofseen>>
    /\ UNCHANGED <<cv_clamp, cv_sig, cv_src, cv_src0, cv_eof, cv_out, cv_wait,
                   cv_rpc, cv_loaded, cv_buf, wvars, qmem, qctl, qrt, qhist,
                   qenv>>

\* main, lines 296-306: the loop goes on over the bytes of the read after a
\* store into the cell, up to the next store.
CvLine ==
    /\ cv_pc = "bytes"
    /\ \E run \in {CvRun(cv_rbuf, cv_line)} :
       \E h \in {IF run.lf THEN cv_handle_line(cv_value, run.handed, cv_clamp)
                  ELSE [value |-> cv_value, diag |-> <<>>]} :
           /\ cv_line' = run.line
           /\ cv_value' = h.value
           /\ cv_log' = IF run.lf THEN CvLogged(cv_log, run.handed, cv_value, h)
                        ELSE cv_log
           /\ cv_rbuf' = run.rest
           /\ cv_pc' = IF run.rest = <<>> THEN "read" ELSE "bytes"
    /\ UNCHANGED <<cv_fd1, cv_clamp, cv_sig, cv_pipe, cv_src, cv_src0, cv_eof,
                   cv_out, cv_wait, cv_eofseen, cv_rpc, cv_loaded, cv_buf,
                   wvars, qmem, qctl, qrt, qhist, qenv>>

\* on_exit, lines 59-62: a terminating signal closes the write end.
CvSignal ==
    /\ cv_pc # "closed"
    /\ ~cv_sig
    /\ cv_sig' = TRUE
    /\ UNCHANGED <<cv_value, cv_line, cv_pc, cv_fd1, cv_clamp, cv_pipe,
                   cv_src, cv_src0, cv_eof, cv_out, cv_log, cv_wait,
                   cv_eofseen, cv_rpc, cv_loaded, cv_buf, cv_rbuf, wvars,
                   qmem, qctl, qrt, qhist, qenv>>

\* process, lines 109-128: the port buffer is filled with the cell's value.
CvProcess ==
    /\ cv_pc # "closed"
    /\ cv_out' = cv_value
    /\ UNCHANGED <<cv_value, cv_line, cv_pc, cv_fd1, cv_clamp, cv_sig,
                   cv_pipe, cv_src, cv_src0, cv_eof, cv_log, cv_wait,
                   cv_eofseen, cv_rpc, cv_loaded, cv_buf, cv_rbuf, wvars,
                   qmem, qctl, qrt, qhist, qenv>>

\* Standard input: the next bytes arrive.
CvArrive ==
    /\ cv_src # <<>>
    /\ \E k \in 1..Len(cv_src) :
         /\ cv_pipe' = cv_pipe \o SubSeq(cv_src, 1, k)
         /\ cv_src' = SubSeq(cv_src, k + 1, Len(cv_src))
    /\ UNCHANGED <<cv_value, cv_line, cv_pc, cv_fd1, cv_clamp, cv_sig,
                   cv_src0, cv_eof, cv_out, cv_log, cv_wait, cv_eofseen,
                   cv_rpc, cv_loaded, cv_buf, cv_rbuf, wvars, qmem, qctl, qrt,
                   qhist, qenv>>

\* Standard input: the other end is closed after the last byte.
CvEof ==
    /\ cv_src = <<>>
    /\ ~cv_eof
    /\ cv_eof' = TRUE
    /\ UNCHANGED <<cv_value, cv_line, cv_pc, cv_fd1, cv_clamp, cv_sig,
                   cv_pipe, cv_src, cv_src0, cv_out, cv_log, cv_wait,
                   cv_eofseen, cv_rpc, cv_loaded, cv_buf, cv_rbuf, wvars,
                   qmem, qctl, qrt, qhist, qenv>>

\* The bytes of an endless input.
FloodBytes == {53, CH_LF}

\* Standard input: a writer that never stops has another byte ready whenever
\* there is room (lines are kept to MaxRun digits).
CvFlood ==
    /\ ~cv_eof
    /\ cv_pc # "closed"
    /\ Len(cv_pipe) < PipeRoom
    /\ \E b \in FloodBytes :
         /\ b = CH_LF \/ Len(cv_line) + Len(cv_pipe) < MaxRun
         /\ cv_pipe' = Append(cv_pipe, b)
    /\ UNCHANGED <<cv_value, cv_line, cv_pc, cv_fd1, cv_clamp, cv_sig, cv_src,
                   cv_src0, cv_eof, cv_out, cv_log, cv_wait, cv_eofseen,
                   cv_rpc, cv_loaded, cv_buf, cv_rbuf, wvars, qmem, qctl, qrt,
                   qhist, qenv>>

\* The lines of ls, each with its line-feed, as one stream.
RECURSIVE Stream(_)
Stream(ls) ==
    IF ls = <<>> THEN <<>> ELSE Head(ls) \o <<CH_LF>> \o Stream(Tail(ls))

\* main, line 299: handle_line(&state, line) with a complete line; the
\* store into the cell is its one step the real-time thread can see.
CellLine ==
    /\ Len(cv_log) < MaxCvLines
    /\ \E ln \in CvLines :
         \E h \in {cv_handle_line(cv_value, ln, cv_clamp)} :
             /\ cv_value' = h.value
             /\ cv_log' = CvLogged(cv_log, ln, cv_value, h)
    /\ UNCHANGED <<cv_line, cv_pc, cv_fd1, cv_clamp, cv_sig, cv_pipe, cv_src,
                   cv_src0, cv_eof, cv_out, cv_wait, cv_eofseen, cv_rpc,
                   cv_loaded, cv_buf, cv_rbuf, wvars, qmem, qctl, qrt, qhist,
                   qenv>>

\* process, lines 110-123: the port buffer is there; the cell is loaded once.
CellLoad ==
    /\ cv_rpc = "idle"
    /\ cv_loaded' = cv_value
    /\ cv_buf' = <<>>
    /\ cv_rpc' = "fill"
    /\ UNCHANGED <<cv_value, cv_line, cv_pc, cv_fd1, cv_clamp, cv_sig,
                   cv_pipe, cv_src, cv_src0, cv_eof, cv_out, cv_log, cv_wait,
                   cv_eofseen, cv_rbuf, wvars, qmem, qctl, qrt, qhist, qenv>>

\* process, lines 116-120: jack_port_get_buffer returned NULL.
CellNoBuffer ==
    /\ cv_rpc = "idle"
    /\ UNCHANGED vars

\* A callback that reads the cell again for every frame.
frame_value_reload(loaded, cell) == cell

\* process, line 125: the value a frame gets.
frame_value(loaded, cell) == loaded

\* process, lines 124-126: one iteration of the loop over the frames.
CellFrame ==
    /\ cv_rpc = "fill"
    /\ Len(cv_buf) < Frames
    /\ cv_buf' = Append(cv_buf, frame_value(cv_loaded, cv_value))
    /\ UNCHANGED <<cv_value, cv_line, cv_pc, cv_fd1, cv_clamp, cv_sig,
                   cv_pipe, cv_src, cv_src0, cv_eof, cv_out, cv_log, cv_wait,
                   cv_eofseen, cv_rpc, cv_loaded, cv_rbuf, wvars, qmem, qctl,
                   qrt, qhist, qenv>>

\* process, line 127: the loop is over.
CellReturn ==
    /\ cv_rpc = "fill"
    /\ Len(cv_buf) = Frames
    /\ cv_rpc' = "idle"
    /\ UNCHANGED <<cv_value, cv_line, cv_pc, cv_fd1, cv_clamp, cv_sig,
                   cv_pipe, cv_src, cv_src0, cv_eof, cv_out, cv_log, cv_wait,
                   cv_eofseen, cv_loaded, cv_buf, cv_rbuf, wvars, qmem, qctl,
                   qrt, qhist, qenv>>

\* ------------------------------------------------------------------
\* Specifications
\* ------------------------------------------------------------------
QInit ==
    /\ QState0
    /\ stdin = <<>>
    /\ WIdle
    /\ CvIdle

\* The queue: one control thread and one real-time thread, every interleaving
\* of their atomic steps; every callback finds the port buffer (SpecSkip has
\* the callbacks that find none).
QNext ==
    \/ MainLine
    \/ HandleLineStep
    \/ Process

SpecQueue == QInit /\ [][QNext]_vars

\* The queue with callbacks that keep coming and find the port buffer, and
\* with a push_back that, once it has exchanged the tail, stores the link.
SpecQueueLive ==
    QInit /\ [][QNext]_vars /\ WF_vars(Process) /\ WF_vars(PB_Link)

\* Standard input holds any bytes; the real-time thread is not scheduled.
DecInit ==
    /\ QState0
    /\ WIdle
    /\ CvIdle
    /\ stdin \in SeqsUpTo(DecBytes, MaxInput)

\* The control thread alone: main's line loop and handle_line.
DecNext ==
    \/ ProcByte
    \/ FE_Load
    \/ FE_Done
    \/ HL_NodeNew
    \/ HL_NodeNewAbort
    \/ HL_Fill
    \/ PB_Exchange
    \/ PB_Link

SpecDecoder == DecInit /\ [][DecNext]_vars

WInit ==
    /\ WState0
    /\ fdmode \in {"any", "one", "full"}
    /\ QState0
    /\ stdin = <<>>
    /\ CvIdle

\* The writer with callbacks that all find the port buffer (SpecSkip has the
\* callbacks that find none).
WNext ==
    \/ W_Tick

SpecWriter == WInit /\ [][WNext]_vars

\* cv.c, built with or without JACLI_CV_CLAMP, on any input of at most
\* MaxCvLines of the lines, arriving in any pieces.
CvInit ==
    /\ CvState0
    /\ cv_clamp \in BOOLEAN
    /\ cv_src \in { Stream(ls) : ls \in SeqsUpTo(CvLines, MaxCvLines) }
    /\ cv_src0 = cv_src
    /\ QState0
    /\ stdin = <<>>
    /\ WIdle

CvNext ==
    \/ CvPoll
    \/ CvRead
    \/ CvLine
    \/ CvSignal
    \/ CvProcess
    \/ CvArrive
    \/ CvEof

SpecCv == CvInit /\ [][CvNext]_vars

\* The cell of cv.c between its two threads: handle_line's stores and the
\* steps of process, in every interleaving, in both builds.
CellInit ==
    /\ CvState0
    /\ cv_clamp \in BOOLEAN
    /\ cv_src = <<>>
    /\ cv_src0 = <<>>
    /\ QState0
    /\ stdin = <<>>
    /\ WIdle

CellNext ==
    \/ CellLine
    \/ CellLoad
    \/ CellNoBuffer
    \/ CellFrame
    \/ CellReturn

SpecCell == CellInit /\ [][CellNext]_vars

\* The event loop of cv.c on an input that may never end.
LoopInit ==
    /\ CvIdle
    /\ QState0
    /\ stdin = <<>>
    /\ WIdle

LoopNext ==
    \/ CvPoll
    \/ CvRead
    \/ CvLine
    \/ CvSignal
    \/ CvFlood
    \/ CvEof

\* A line of n bytes b.
Run(b, n) == [i \in 1..n |-> b]

\* The lengths of the long lines for a buffer of cap bytes: from two under
\* what the buffer holds (cap - 1) to MaxOver over it.
LongLengths(cap) == (cap - 3)..(cap - 1 + MaxOver)

\* Standard input of jack-stdin-to-midi: a long line of '9's, then "9a".
LongInputs ==
    { Run(CH_9, n) \o <<CH_LF, CH_9, CH_a, CH_LF>> : n \in LongLengths(LineCap) }

\* Standard input of cv: a long line of 'z's, then "0.5".
LongCvInputs ==
    { Run(122, n) \o <<CH_LF, 48, 46, 53, CH_LF>> : n \in LongLengths(CvLineCap) }

\* One of the two programs is given a line about as long as its buffer.
LongInit ==
    /\ QState0
    /\ WIdle
    /\ CvState0
    /\ cv_clamp = FALSE
    /\ \/ stdin \in LongInputs /\ cv_src = <<>>
       \/ stdin = <<>> /\ cv_src \in LongCvInputs
    /\ cv_src0 = cv_src

\* The line loops of jack-stdin-to-midi and of cv, each with its handler.
LongNext ==
    \/ DecNext
    \/ CvPoll
    \/ CvRead
    \/ CvLine
    \/ CvArrive
    \/ CvEof

SpecLong == LongInit /\ [][LongNext]_vars

\* Standard input of jack-stdin-to-midi: the lines "90" and "8a40".
SkipInputs == { <<CH_9, CH_0, CH_LF, 56, CH_a, 52, CH_0, CH_LF>> }

\* One of the two programs is followed, with a port buffer that may be
\* missing at any callback: jack-stdin-to-midi when it is given lines,
\* jack-midi-to-stdin when it is given none.
SkipInit ==
    /\ QState0
    /\ stdin \in SkipInputs \cup {<<>>}
    /\ WState0
    /\ fdmode = "any"
    /\ CvIdle

\* jack-stdin-to-midi has been given lines.
QueueFed == stdin # <<>> \/ input # <<>>

SkipNext ==
    \/ QueueFed /\ ProcByte
    \/ QueueFed /\ HandleLineStep
    \/ QueueFed /\ Process
    \/ QueueFed /\ P_NoBuffer
    \/ ~QueueFed /\ W_Tick
    \/ ~QueueFed /\ W_NoBuffer

SpecSkip == SkipInit /\ [][SkipNext]_vars

\* The event loop of cv.c with every way poll can return.
WaitNext ==
    \/ CvPoll
    \/ CvPollOther
    \/ CvRead
    \/ CvLine
    \/ CvSignal
    \/ CvFlood
    \/ CvEof

SpecWait == LoopInit /\ [][WaitNext]_vars

\* main is a thread that is always scheduled: a poll that can return does,
\* and so do a read and the loop over its bytes.
SpecLoop ==
    /\ LoopInit /\ [][LoopNext]_vars
    /\ WF_vars(CvPoll) /\ WF_vars(CvRead) /\ WF_vars(CvLine)

\* ------------------------------------------------------------------
\* Properties of the queue
\* ------------------------------------------------------------------
\* C1: when a process callback has run to its end and it began after every
\* enqueue made so far had completed, the payloads it and the earlier
\* callbacks emitted are exactly the payloads enqueued, each once and in
\* enqueue order (the blank node adds nothing).
C1_DrainEmitsAllInOrder ==
    (rpc = "idle" /\ cpc # "pb_link" /\ rt_base = Len(enqueued))
        => emitted = enqueued

C1_Witness ==
    /\ rpc = "idle"
    /\ cpc = "main"
    /\ rt_base = Len(enqueued)
    /\ Len(enqueued) >= 2
    /\ enqueued[1] # enqueued[2]
    /\ emitted = enqueued

\* C2: under every interleaving, no free() of free_excess hits the node head
\* points to, a node reachable from it, or the node the drain loop is on, and
\* no thread touches freed memory.
C2_ReclaimNeverFreesReachable ==
    /\ ~freedlog.unsafe
    /\ fault = "none"

C2_Witness ==
    /\ freedlog.count >= 2
    /\ freedlog.busy
    /\ rpc = "loop"

\* C15: head, tail and malloc_head are never NULL and never point to freed
\* memory; the next links lead from malloc_head to head and from head to
\* tail, but for the moment between push_back's exchange and its store of
\* the link, when they lead from head to the old tail and the new tail is
\* the node being pushed; and free is never called on memory that is not
\* allocated.
C15_QueueShape ==
    /\ {head, tail, malloc_head} \subseteq allocd
    /\ head \in Reach(malloc_head)
    /\ cpc # "pb_link" => tail \in Reach(head)
    /\ cpc = "pb_link" =>
         /\ pb_old \in Reach(head)
         /\ heap[pb_old].next = NULL
         /\ tail = hl_node
    /\ fault # "bad_free"

\* Between the exchange and the link of a third line: one node has been
\* freed, the frontier is behind the cursor, and the new tail is not linked.
C15_Witness ==
    /\ cpc = "pb_link"
    /\ freedlog.count >= 1
    /\ malloc_head # head
    /\ tail \notin Reach(head)

\* The node at n has its length and all of its message written.
Constructed(n) ==
    /\ Len(heap[n].message) = heap[n].length
    /\ \A i \in 1..heap[n].length : heap[n].message[i] \in 0..255

\* The nodes some node's next link points to.
Linked == { heap[p].next : p \in allocd } \ {NULL}

\* C16: a node that a next link points to is allocated and has its length
\* and every byte of its message written; the node handle_line is building
\* or pushing is pointed to by no link until push_back stores the link;
\* process never writes an unwritten byte to the port; and no step changes
\* the length or the message of a node that can be reached from malloc_head
\* and stays allocated.
C16_PublishedNodeComplete ==
    /\ [](/\ Linked \subseteq allocd
          /\ \A n \in Linked : Constructed(n)
          /\ hl_node # NULL => hl_node \notin Linked
          /\ \A k \in 1..Len(emitted) :
               \A i \in 1..Len(emitted[k]) : emitted[k][i] \in 0..255)
    /\ [][\A n \in Reach(malloc_head) \cap allocd' :
             /\ heap'[n].message = heap[n].message
             /\ heap'[n].length = heap[n].length]_vars

\* While process is in its drain loop and has written a message,
\* handle_line holds a node whose bytes are not written yet.
C16_Witness ==
    /\ rpc = "loop"
    /\ emitted # <<>>
    /\ cpc = "fill"
    /\ heap[hl_node].length = 2
    /\ ~Constructed(hl_node)
    /\ hl_node \notin Reach(head)

\* A step of the real-time thread.
RtStep == rpc' # rpc \/ rt_node' # rt_node \/ head' # head \/ emitted' # emitted

\* C17: a run of free_excess works on the one cursor it loaded: while it
\* loops the frontier is that cursor; each free is of a node that lay between
\* the old frontier and that cursor when it was loaded, and when the run ends
\* all of those nodes are freed; free_excess is entered only from main's line
\* loop, as handle_line's first step; nothing is freed outside its loop,
\* nothing is allocated outside handle_line, and no step of process
\* allocates or frees.
C17_ReclaimerRun ==
    /\ [](cpc = "fe_loop" =>
            /\ malloc_head = fe_head
            /\ fe_plan \cap allocd = Reach(fe_node) \ Reach(fe_head)
            /\ fe_node = fe_head => fe_plan \cap allocd = {})
    /\ [][/\ (cpc = "fe_loop" /\ cpc' = "fe_loop") => fe_head' = fe_head
          /\ allocd' # allocd =>
               \/ /\ cpc = "fe_loop"
                  /\ allocd' = allocd \ {fe_node}
                  /\ fe_node \in fe_plan
                  /\ fe_node # fe_head
               \/ /\ cpc = "node_new"
                  /\ allocd \subseteq allocd'
          /\ (cpc' = "free_excess" /\ cpc # "free_excess") => cpc = "main"
          /\ RtStep => allocd' = allocd]_vars

\* A run has just freed the two nodes behind the cursor while process was
\* in its drain loop.
C17_Witness ==
    /\ cpc = "fe_loop"
    /\ fe_node = fe_head
    /\ Cardinality(fe_plan) = 2
    /\ fe_plan \cap allocd = {}
    /\ rpc = "loop"

\* C26: under every interleaving of handle_line with process, a push_back
\* that begins or ends inside a drain loop included, the payloads process
\* has emitted are the first of the payloads enqueued, in the same order
\* (none twice, none left out, none out of order), and head and the node
\* of the drain loop only move forward along the next links.
C26_EmittedIsPrefixOfEnqueued ==
    /\ [](/\ Len(emitted) <= Len(enqueued)
          /\ emitted = SubSeq(enqueued, 1, Len(emitted)))
    /\ [][/\ head' \in Reach(head)
          /\ (rpc = "loop" /\ rpc' = "loop") => rt_node' \in Reach(rt_node)]_vars

\* A third push_back has exchanged the tail and not yet stored the link
\* while the drain loop, begun during the second, has emitted one message.
C26_Witness ==
    /\ rpc = "loop"
    /\ cpc = "pb_link"
    /\ Len(enqueued) = 3
    /\ Len(emitted) = 1
    /\ head # rt_node

\* C27: a drain loop that finds the next link of its node unset leaves the
\* loop at once, and every drain loop ends; with callbacks that keep coming
\* and a push_back that completes, every message enqueued is emitted in the
\* end, whether or not another line follows.
C27_EveryMessageEmitted ==
    /\ [][(rpc = "loop" /\ heap[rt_node].next = NULL /\ RtStep) => rpc' = "store"]_vars
    /\ (rpc = "loop") ~> (rpc = "idle")
    /\ \A k \in 1..MaxLines : (Len(enqueued) >= k) ~> (Len(emitted) >= k)

\* Three messages have been enqueued and emitted, and the cursor is the tail.
C27_Witness ==
    /\ Len(enqueued) = 3
    /\ emitted = enqueued
    /\ rpc = "idle"
    /\ cpc = "main"
    /\ head = tail

\* What a step that records a callback without port buffer leaves alone.
SkipStep ==
    /\ (skipped' # skipped) =>
         (/\ UNCHANGED <<qmem, qctl, qrt, qenv>>
          /\ UNCHANGED <<emitted, enqueued, delivered, diag>>)
    /\ (wskipped' /\ ~wskipped) =>
         UNCHANGED <<line_completed, out, wcrashed, wtop, wfed>>

\* C21: a process callback that finds no port buffer emits nothing and
\* changes nothing the two threads share or the program keeps: in
\* jack-stdin-to-midi the heap, head, tail and malloc_head, the control
\* thread and the messages emitted are as they were, so that a later callback
\* that begins after every enqueue has completed still leaves every message
\* emitted; in jack-midi-to-stdin line_completed and the bytes written are as
\* they were.
C21_SkippedTickChangesNothing ==
    /\ []((skipped >= 0 /\ rpc = "idle" /\ cpc # "pb_link"
              /\ rt_base = Len(enqueued)) => emitted = enqueued)
    /\ [][SkipStep]_vars

\* A callback found no buffer while two messages were pending, and both have
\* been emitted since.
C21_Witness ==
    /\ skipped = 2
    /\ rpc = "idle"
    /\ Len(emitted) = 2
    /\ emitted = enqueued

\* The latest callback of jack-midi-to-stdin found no buffer while a line
\* was cut short.
C21_WitnessWriter ==
    /\ wskipped
    /\ ~line_completed
    /\ out # <<>>

\* C24 as stated: when handle_line has returned, every node that is allocated
\* is linked into the list that starts at the reclamation frontier (which
\* holds the queue): no line, and none rejected for an invalid hex digit,
\* leaves a node that neither the queue nor the reclaimer will reach.
C24_NoNodeLeft ==
    cpc = "main" => allocd \subseteq Reach(malloc_head)

\* ------------------------------------------------------------------
\* Properties of the writer's buffer
\* ------------------------------------------------------------------
\* C25: after every process callback, whatever each write call returned
\* (an error, 0, a part of the bytes or all of them), line_completed is true
\* exactly when nothing has been written to standard output yet or the last
\* byte written is a line-feed or an 'X'.
C25_LineCompletedTracksLastByte ==
    line_completed <=> (out = <<>> \/ out[Len(out)] \in {CH_LF, CH_X})

\* A tick that began with a line cut short got only its 'X' written: the
\* line counts as completed again.
C25_Witness ==
    /\ wticks >= 2
    /\ Len(out) >= 2
    /\ out[Len(out)] = CH_X
    /\ out[Len(out) - 1] \notin {CH_LF, CH_X}
    /\ line_completed

\* C23 as stated: every index at which process stores into buf is below
\* sizeof(buf), whatever the events of the tick and whether or not the tick
\* begins with the 'X'.
C23_StoresInsideBuf == wtop < BufSize

\* ------------------------------------------------------------------
\* Properties of the decoder
\* ------------------------------------------------------------------
Last(s) == s[Len(s)]

\* The positions of input that end a partial line: line-feeds and 'X's.
Terminators(inp) == { i \in 1..Len(inp) : inp[i] = CH_LF \/ inp[i] = CH_X }

LineFeeds(inp) == { i \in 1..Len(inp) : inp[i] = CH_LF }

\* The last terminator before position p (0: none).
TermBefore(inp, p) ==
    LET T == { i \in Terminators(inp) : i < p }
    IN  IF T = {} THEN 0 ELSE CHOOSE i \in T : \A j \in T : j <= i

\* The k-th smallest element of a set of positions.
RECURSIVE Nth(_, _)
Nth(S, k) ==
    LET m == CHOOSE i \in S : \A j \in S : i <= j
    IN  IF k = 1 THEN m ELSE Nth(S \ {m}, k - 1)

\* What a stream is read as: before each line-feed, the bytes since the last
\* line-feed or 'X'.
LinesOf(inp) ==
    [ k \in 1..Cardinality(LineFeeds(inp)) |->
        LET p == Nth(LineFeeds(inp), k)
        IN  SubSeq(inp, TermBefore(inp, p) + 1, p - 1) ]

PartialOf(inp) == SubSeq(inp, TermBefore(inp, Len(inp) + 1) + 1, Len(inp))

\* C4: an 'X' at any offset resets the accumulator: the lines handed to
\* handle_line are, for each line-feed, exactly the bytes since the last
\* line-feed or 'X' before it, and the accumulator holds the bytes since the
\* last line-feed or 'X'; every complete line after an 'X' is handed over as
\* it stands in the stream.
C4_ResyncDiscardsPartialLine ==
    /\ delivered = LinesOf(input)
    /\ line = PartialOf(input)

\* "9Xa9\n": the 9 is discarded, a9 is decoded.
C4_Witness ==
    /\ input = <<57, CH_X, 97, 57, CH_LF>>
    /\ cpc = "main"
    /\ delivered = << <<97, 57>> >>
    /\ enqueued = << <<169>> >>

\* The line-feeds of a stream that directly follow an 'X': the ends of the
\* lines that consist of an 'X' alone.
ResyncLineFeeds(inp) == { p \in LineFeeds(inp) : p > 1 /\ inp[p - 1] = CH_X }

\* C22 as stated: a line that is an 'X' alone voids the bytes before it and
\* enqueues no message: the accumulator holds the bytes since the last
\* line-feed or 'X', and when the line loop has control at most the other
\* line-feeds of the stream have enqueued a message.
C22_ResyncLineEnqueuesNothing ==
    /\ line = PartialOf(input)
    /\ cpc = "main" =>
         Len(enqueued) <= Cardinality(LineFeeds(input) \ ResyncLineFeeds(input))

\* The bytes whose two digits are bytes of the decoder specification.
RoundTripBytes ==
    { v \in 0..255 : hex_pair(v)[1] \in DecBytes /\ hex_pair(v)[2] \in DecBytes }

\* The payloads whose line and line-feed fit in the input.
RoundTripPayloads == SeqsUpTo(RoundTripBytes, (MaxInput - 1) \div 2)

\* The line the writer produces for an event, without its line-feed.
Encode(m) == HexRun(m, 1, Len(m))

LowerCase(c) == IF c \in CH_A..CH_F THEN c + 32 ELSE c

\* v is l up to the case of the digits a to f.
IsCaseVariant(v, l) ==
    Len(v) = Len(l) /\ \A i \in 1..Len(l) : LowerCase(v[i]) = l[i]

\* l is the line of payload m, up to case.
Encodes(l, m) == 2 * Len(m) = Len(l) /\ IsCaseVariant(l, Encode(m))

\* The payload whose encoding l is, up to case (<<-1>>: there is none).
Decoded(l) ==
    IF \E m \in RoundTripPayloads : Encodes(l, m)
    THEN CHOOSE m \in RoundTripPayloads : Encodes(l, m)
    ELSE <<-1>>

\* The payloads in the queue behind the cursor, in list order.
RECURSIVE ListFrom(_)
ListFrom(n) ==
    IF heap[n].next = NULL THEN <<>>
    ELSE <<Payload(heap[n].next)>> \o ListFrom(heap[n].next)

\* C6: the line the writer produces for a payload, in either case of its
\* digits, is decoded by handle_line into a node whose length and bytes are
\* the payload: the node handed to push_back holds it, and when every line
\* read so far is such a line the queue holds the payloads in order, an
\* empty payload for a bare line-feed, and nothing was reported.
C6_RoundTrip ==
    /\ (cpc = "pb_exchange" /\ Decoded(hl_line) # <<-1>>) =>
          /\ heap[hl_node].length = Len(Decoded(hl_line))
          /\ Payload(hl_node) = Decoded(hl_line)
    /\ (cpc = "main" /\ \A k \in 1..Len(delivered) : Decoded(delivered[k]) # <<-1>>) =>
          /\ enqueued = [k \in 1..Len(delivered) |-> Decoded(delivered[k])]
          /\ ListFrom(head) = enqueued
          /\ diag = <<>>

\* "aA\n\n": aa in mixed case, then an empty message.
C6_Witness ==
    /\ cpc = "main"
    /\ input = <<CH_a, CH_A, CH_LF, CH_LF>>
    /\ Encode(<<170>>) = <<CH_a, CH_a>>
    /\ ListFrom(head) = << <<170>>, <<>> >>
    /\ heap[tail].length = 0

HexDigits == (48..57) \cup (97..102) \cup (65..70)

DigitValue(c) ==
    IF c \in 48..57 THEN c - 48
    ELSE IF c \in 97..102 THEN c - 87
    ELSE c - 55

WellFormed(l) == Len(l) % 2 = 0 /\ \A i \in 1..Len(l) : l[i] \in HexDigits

BytesOf(l) ==
    [ i \in 1..(Len(l) \div 2) |-> 16 * DigitValue(l[2 * i - 1]) + DigitValue(l[2 * i]) ]

RECURSIVE SelectWellFormed(_)
SelectWellFormed(ls) ==
    IF ls = <<>> THEN <<>>
    ELSE (IF WellFormed(Head(ls)) THEN <<BytesOf(Head(ls))>> ELSE <<>>)
         \o SelectWellFormed(Tail(ls))

IllFormed(ls) == { k \in 1..Len(ls) : ~WellFormed(ls[k]) }

\* C7: a line of odd length or with a character that is no hex digit
\* enqueues nothing and is reported once; the lines before and after it are
\* decoded as if it had not been there: whenever the line loop has control
\* the queue holds exactly the payloads of the well-formed lines read, in
\* order, tail is its last node, and there is one report per other line.
C7_IllFormedLineDropped ==
    cpc = "main" =>
        /\ enqueued = SelectWellFormed(delivered)
        /\ ListFrom(head) = enqueued
        /\ heap[tail].next = NULL
        /\ Len(enqueued) = 0 => tail = head
        /\ Len(diag) = Cardinality(IllFormed(delivered))
        /\ \A k \in 1..Len(diag) :
              diag[k] = IF Len(delivered[Nth(IllFormed(delivered), k)]) % 2 = 1
                        THEN "bad message length" ELSE "invalid hex digit"

\* "g\n9a\n": the odd line g is reported and 9a is enqueued after it.
C7_Witness ==
    /\ cpc = "main"
    /\ input = <<103, CH_LF, CH_9, CH_a, CH_LF>>
    /\ diag = <<"bad message length">>
    /\ ListFrom(head) = << <<154>> >>

\* "gg\n\n": gg is reported as an invalid digit and the empty line after it
\* is enqueued.
C7_WitnessInvalidDigit ==
    /\ cpc = "main"
    /\ input = <<103, 103, CH_LF, CH_LF>>
    /\ diag = <<"invalid hex digit">>
    /\ ListFrom(head) = << <<>> >>

\* ------------------------------------------------------------------
\* Properties of the writer, end to end with the decoder
\* ------------------------------------------------------------------
\* handle_line, lines 178-196, as a function of the line: the payload it
\* enqueues, if any.
DecodeLine(ln) ==
    IF Len(ln) % 2 = 1 THEN <<>>
    ELSE LET r == FillLoop(ln, node_new(Len(ln) \div 2).message)
         IN  IF r.ok THEN <<r.message>> ELSE <<>>

\* The first 'X' or line-feed of bytes at or after i (Len(bytes) + 1: none).
NextTerminator(bytes, i) ==
    LET T == { j \in i..Len(bytes) : bytes[j] = CH_X \/ bytes[j] = CH_LF }
    IN  IF T = {} THEN Len(bytes) + 1 ELSE CHOOSE j \in T : \A k \in T : j <= k

\* main, lines 335-337, over a run of bytes with no 'X' or line-feed: each
\* is appended while there is room.
on_run(ln, run) ==
    SubSeq(ln \o run, 1, Min(Len(ln) + Len(run), LineCap - 1))

\* main, lines 323-338, as a function of the bytes read: the payloads
\* enqueued, in order, from byte i on with ln in the accumulator.
RECURSIVE DecodeFrom(_, _, _)
DecodeFrom(bytes, i, ln) ==
    IF i > Len(bytes) THEN <<>>
    ELSE LET p == NextTerminator(bytes, i)
             l2 == on_run(ln, SubSeq(bytes, i, p - 1))
         IN  IF p > Len(bytes) THEN <<>>
             ELSE IF bytes[p] = CH_X THEN DecodeFrom(bytes, p + 1, on_resync(l2))
             ELSE DecodeLine(l2) \o DecodeFrom(bytes, p + 1, <<>>)

DecodeStream(bytes) == DecodeFrom(bytes, 1, <<>>)

\* s is t with some elements left out.
RECURSIVE IsSubseq(_, _)
IsSubseq(s, t) ==
    IF s = <<>> THEN TRUE
    ELSE IF t = <<>> THEN FALSE
    ELSE IF Head(s) = Head(t) THEN IsSubseq(Tail(s), Tail(t))
    ELSE IsSubseq(s, Tail(t))

\* C3 as stated: once the writer has been quiet for two ticks, a descriptor
\* that takes one byte per write call has carried the same decodable lines
\* as one that takes everything, which carries every event fed.
C3_OneByteSameLines ==
    (fdmode = "one" /\ wquiet >= 2) => DecodeStream(out) = wfed

\* C3, as the writer behaves: a descriptor that takes everything carries
\* every event fed, in order; a descriptor that takes one byte per write
\* call carries one byte per tick and the rest of the tick's buffer is
\* dropped, so the lines decoded are a subsequence of the events fed and
\* only empty events get through.
C3_OneByteSubsequence ==
    /\ fdmode = "full" => (line_completed /\ DecodeStream(out) = wfed)
    /\ fdmode = "one" =>
          /\ Len(out) <= wticks
          /\ IsSubseq(DecodeStream(out), wfed)
          /\ \A k \in 1..Len(DecodeStream(out)) : DecodeStream(out)[k] = <<>>

\* One byte per call: 90 and 90 3c were fed, "9" and then "X" were written
\* in two ticks and the third, quiet tick wrote nothing.
C3_Witness ==
    /\ fdmode = "one"
    /\ wfed = <<EvNoteByte, EvNote>>
    /\ out = <<57, CH_X>>
    /\ wquiet = 2
    /\ DecodeStream(out) = <<>>

\* C5: whatever the write calls accept, the stream written decodes to
\* events that were fed, whole and in the order fed: no message is a line
\* cut short by a write.
C5_NoTruncatedMessage ==
    IsSubseq(DecodeStream(out), wfed)

\* "X90" was written of "X90\n903c\n" after a cut line, and a later tick got
\* an event through whole.
C5_Witness ==
    /\ fdmode = "any"
    /\ wticks = 3
    /\ Len(out) >= 6
    /\ SubSeq(out, 1, 6) = <<57, 48, 10, 57, CH_X, 57>>
    /\ ~line_completed
    /\ DecodeStream(out) = <<EvNoteByte>>

\* The lines of the events evs as the writer stores them: the digits of each
\* event and its line-feed.
RECURSIVE TickStream(_)
TickStream(evs) ==
    IF evs = <<>> THEN <<>>
    ELSE Encode(Head(evs)) \o <<CH_LF>> \o TickStream(Tail(evs))

IsPrefix(p, s) == Len(p) <= Len(s) /\ SubSeq(s, 1, Len(p)) = p

\* C13: line_completed is false exactly when the last byte standard output
\* accepted is neither a line-feed nor an 'X'; and the first byte accepted
\* from a tick that follows such a byte is one 'X', followed only by the
\* lines of that tick's own events from their first digit on.
C13_ResyncBeforeFreshLine ==
    /\ [](line_completed = (out = <<>> \/ Last(out) \in {CH_LF, CH_X}))
    /\ [][(out # <<>> /\ Last(out) \notin {CH_LF, CH_X} /\ out' # out) =>
            LET written == SubSeq(out', Len(out) + 1, Len(out'))
                evs == SubSeq(wfed', Len(wfed) + 1, Len(wfed'))
            IN  /\ written[1] = CH_X
                /\ IsPrefix(Tail(written), TickStream(evs))]_vars

\* "9" was cut off, a tick wrote nothing, and a later tick wrote "X90".
C13_Witness ==
    /\ wticks = 3
    /\ out = <<57, CH_X, 57, 48>>
    /\ ~line_completed

\* ------------------------------------------------------------------
\* Properties of the scalar direction
\* ------------------------------------------------------------------
\* ln is one base-10 floating-point literal: an optional sign, then digits
\* with at most one point among them and at least one digit, then an
\* optional exponent part, and nothing else.
IsDecimalLiteral(ln) ==
    LET b == IF ln # <<>> /\ ln[1] \in {43, 45} THEN 2 ELSE 1
        ie == SpanEnd(ln, b, DigitChars)
        hasPoint == ie <= Len(ln) /\ ln[ie] = 46
        fe == IF hasPoint THEN SpanEnd(ln, ie + 1, DigitChars) ELSE ie
    IN  /\ (ie - b) + (IF hasPoint THEN fe - ie - 1 ELSE 0) > 0
        /\ ExpPart(ln, fe, 101).end = Len(ln) + 1

\* C8 as stated: every line that is not one base-10 floating-point literal
\* (an empty line and nan among them) is rejected with a diagnostic and
\* leaves the cell as it was.
C8_MalformedRejected ==
    \A k \in 1..Len(cv_log) :
        ~IsDecimalLiteral(cv_log[k].line) =>
            /\ cv_log[k].after = cv_log[k].before
            /\ cv_log[k].diag \in { <<"error: could not parse as a float">>,
                                    <<"error: value cannot be NaN">> }

\* |a| < |b| on floats that are not NaN.
FMagLess(a, b) ==
    IF a.kind = "inf" THEN FALSE
    ELSE IF b.kind = "inf" THEN TRUE
    ELSE a.e < b.e \/ (a.e = b.e /\ a.m < b.m)

\* a < b on floats that are not NaN.
FLess(a, b) ==
    IF a.neg # b.neg THEN a.neg /\ (FMagLess(FZero, a) \/ FMagLess(FZero, b))
    ELSE IF a.neg THEN FMagLess(b, a)
    ELSE FMagLess(a, b)

FMax(a, b) == IF FLess(a, b) THEN b ELSE a
FMin(a, b) == IF FLess(b, a) THEN b ELSE a

\* C9: for a line that strtof converts to a value v that is not NaN, a build
\* with clamping stores min(max(v, 0), 1), with the notice "value clamped to
\* 0" when v < 0, "value clamped to 1" when v > 1 and none otherwise; a
\* build without clamping stores v and writes no notice. The cell holds
\* what the last line handled left in it.
C9_ClampStored ==
    /\ \A k \in 1..Len(cv_log) :
         LET e == cv_log[k]
             r == strtof(e.line)
         IN  (r.end > 1 /\ ~r.erange /\ r.val.kind # "nan") =>
               /\ e.after = IF cv_clamp THEN FMin(FMax(r.val, FZero), FOne) ELSE r.val
               /\ e.diag = IF cv_clamp /\ FLess(r.val, FZero) THEN <<"value clamped to 0">>
                           ELSE IF cv_clamp /\ FLess(FOne, r.val) THEN <<"value clamped to 1">>
                           ELSE <<>>
    /\ cv_value = IF cv_log = <<>> THEN FZero ELSE cv_log[Len(cv_log)].after

\* A build with clamping read "1.5", process put the 1 in the port buffer,
\* and then "-0.2" was read: the cell holds 0.
C9_Witness ==
    /\ cv_clamp
    /\ Len(cv_log) = 2
    /\ cv_log[1].line = <<49, 46, 53>>
    /\ cv_log[1].after = FOne
    /\ cv_log[1].diag = <<"value clamped to 1">>
    /\ cv_log[2].line = <<45, 48, 46, 50>>
    /\ cv_log[2].diag = <<"value clamped to 0">>
    /\ cv_value = FZero
    /\ cv_out = FOne

\* ------------------------------------------------------------------
\* Properties of the event loop
\* ------------------------------------------------------------------
\* C10 as stated: once on_exit has closed the write end of the pipe, the
\* loop is left and the JACK client is closed, whatever arrives on standard
\* input.
C10_SignalLeadsToClose == cv_sig ~> (cv_pc = "closed")

\* A step of main out of the wait: poll has returned with a descriptor ready.
WakeStep == cv_pc = "poll" /\ (cv_pc' # cv_pc \/ cv_fd1' # cv_fd1)

\* C11: a wake on which the shutdown pipe reports an event (its write end is
\* closed) leaves the loop at once: the client is closed, no byte of standard
\* input has been read and no line handled in that wake; and the loop is
\* left this way only after on_exit has run.
C11_ShutdownServedFirst ==
    /\ [][(WakeStep /\ cv_sig) =>
             /\ cv_pc' = "closed"
             /\ UNCHANGED <<cv_pipe, cv_line, cv_value, cv_log, cv_fd1>>]_vars
    /\ [](cv_pc = "closed" => cv_sig)

\* The loop was left while a line was waiting unread on standard input.
C11_Witness ==
    /\ cv_pc = "closed"
    /\ cv_sig
    /\ cv_pipe = <<48, 46, 53, CH_LF>>
    /\ cv_log = <<>>

\* C12 as stated: once a read of standard input has returned 0 (end of
\* file, with nothing left to handle), the loop is left and the JACK client
\* is closed, with no signal needed.
C12_EofLeadsToClose == cv_eofseen ~> (cv_pc = "closed")

\* What main holds of standard input and of the cell.
LoopState == <<cv_pipe, cv_line, cv_value, cv_log, cv_fd1, cv_eofseen>>

\* C18: when poll returns 0 or fails with EINTR main is in poll again with
\* nothing read and nothing changed; when it fails otherwise or reports
\* POLLNVAL, main goes straight to close_and_fail, and that is the only way
\* there.
C18_WaitOutcomes ==
    /\ [](cv_wait \in {"zero", "eintr"} => cv_pc = "poll")
    /\ [](cv_wait \in {"fail", "nval"} <=> cv_pc = "failed")
    /\ [][(cv_wait' # cv_wait /\ cv_wait' \in {"zero", "eintr"}) =>
            /\ cv_pc' = "poll"
            /\ UNCHANGED LoopState]_vars
    /\ [][(cv_wait' # cv_wait /\ cv_wait' \in {"fail", "nval"}) =>
            /\ cv_pc = "poll"
            /\ cv_pc' = "failed"
            /\ UNCHANGED LoopState]_vars

\* poll failed after a line was handled, with a byte still unread.
C18_Witness ==
    /\ cv_pc = "failed"
    /\ cv_wait = "fail"
    /\ cv_log # <<>>
    /\ cv_pipe # <<>>

\* on_exit ran while main was in poll, poll failed with EINTR, and main is
\* in poll again with the input as it was.
C18_WitnessRetry ==
    /\ cv_pc = "poll"
    /\ cv_wait = "eintr"
    /\ cv_sig
    /\ cv_pipe # <<>>

\* C19: once a read of standard input has returned 0, pollfds[1].fd is -1
\* and main never reads again: it takes no byte, handles no line and keeps
\* the bytes of an unfinished line for good; the step that saw the end of
\* input goes back to poll, and the loop is left only after on_exit has run.
C19_NothingAfterEof ==
    /\ [](cv_eofseen => (cv_fd1 = -1 /\ cv_pc \in {"poll", "closed"}))
    /\ [](cv_pc = "closed" => cv_sig)
    /\ [][cv_eofseen =>
            /\ cv_pc' # "read"
            /\ UNCHANGED <<cv_pipe, cv_line, cv_value, cv_log>>]_vars
    /\ [][(cv_eofseen' /\ ~cv_eofseen) => cv_pc' = "poll"]_vars

\* Input ended in the middle of a line after a whole line: the "5" stays in
\* line and main waits in poll.
C19_Witness ==
    /\ cv_eofseen
    /\ cv_pc = "poll"
    /\ ~cv_sig
    /\ cv_line = <<53>>
    /\ Len(cv_log) = 1

\* The first n bytes of a line.
Truncated(l, n) == SubSeq(l, 1, Min(Len(l), n))

\* The bytes main's loop over buf has looked at, of those that were to
\* arrive: all but those to come, those in the pipe and those of buf still
\* ahead of the loop.
CvConsumed ==
    SubSeq(cv_src0, 1, Len(cv_src0) - Len(cv_pipe) - Len(cv_src) - Len(cv_rbuf))

\* C20: line never holds more than LineCap - 1 bytes (CvLineCap - 1 in cv);
\* what is handed to handle_line at a line-feed is the line's first
\* LineCap - 1 bytes (all of it when it is shorter), and what is in the
\* buffer is the same of the line begun since: a line that was cut leaves
\* nothing behind for the next.
C20_LineBounded ==
    /\ Len(line) <= LineCap - 1
    /\ delivered = [k \in 1..Cardinality(LineFeeds(input)) |->
                      Truncated(LinesOf(input)[k], LineCap - 1)]
    /\ line = Truncated(PartialOf(input), LineCap - 1)
    /\ Len(cv_line) <= CvLineCap - 1
    /\ [k \in 1..Len(cv_log) |-> cv_log[k].line]
         = [k \in 1..Cardinality(LineFeeds(CvConsumed)) |->
              Truncated(LinesOf(CvConsumed)[k], CvLineCap - 1)]
    /\ cv_line = Truncated(PartialOf(CvConsumed), CvLineCap - 1)

\* A line of LineCap + 1 digits: 1023 of them were handed to handle_line,
\* which refused the odd length, and the line after it was decoded.
C20_Witness ==
    /\ cpc = "main"
    /\ stdin = <<>>
    /\ Len(input) = LineCap + 1 + 4
    /\ Len(delivered) = 2
    /\ Len(delivered[1]) = LineCap - 1
    /\ diag = <<"bad message length">>
    /\ enqueued = << <<154>> >>

\* A line of CvLineCap + 1 bytes: 127 of them were handed to handle_line,
\* and the line after it was stored.
C20_WitnessCv ==
    /\ Len(cv_src0) = CvLineCap + 1 + 5
    /\ Len(cv_log) = 2
    /\ Len(cv_log[1].line) = CvLineCap - 1
    /\ cv_log[2].line = <<48, 46, 53>>
    /\ cv_value = FNum(FALSE, FltHidden, 0 - 24)

\* ------------------------------------------------------------------
\* Properties of the cell
\* ------------------------------------------------------------------
\* The lines handled so far that handle_line stored a value for.
StoredBy(log) ==
    { k \in 1..Len(log) :
        log[k].diag \notin { <<"error: could not parse as a float">>,
                             <<"error: value cannot be NaN">> } }

\* The values the cell has held: the initial 0 and every value stored.
EverStored(log) == {FZero} \cup { log[k].after : k \in StoredBy(log) }

\* C14: the cell holds the value stored for the latest line that was parsed,
\* or its initial 0 when there is none; the value process loaded is one the
\* cell has held, and every frame written in a tick is that one value.
C14_CellHoldsLastStored ==
    /\ cv_value =
         IF StoredBy(cv_log) = {} THEN FZero
         ELSE cv_log[CHOOSE k \in StoredBy(cv_log) :
                        \A j \in StoredBy(cv_log) : j <= k].after
    /\ cv_loaded \in EverStored(cv_log)
    /\ \A i \in 1..Len(cv_buf) : cv_buf[i] = cv_loaded

\* process loaded 0.5, wrote one frame, and 1.5 was stored before the next.
C14_Witness ==
    /\ cv_rpc = "fill"
    /\ Len(cv_buf) = 1
    /\ Len(cv_log) = 2
    /\ cv_log[1].line = <<48, 46, 53>>
    /\ cv_log[2].line = <<49, 46, 53>>
    /\ cv_loaded = cv_log[1].after
    /\ cv_value = cv_log[2].after
    /\ cv_value # cv_loaded
====
